---- MODULE Spec2Model ----
(***************************************************************************)
(* Operating-hours core of legertom/allaccess: the free-text hours parser  *)
(* (src/lib/hours.ts, parseHoursLines and its helpers) and the status      *)
(* engine (getHoursStatus, isOpenAt).                                      *)
(*                                                                         *)
(* Text is modelled as a sequence of one-character strings, so that every  *)
(* regular expression of the source is an operator over characters.  A     *)
(* value of type `T | null` or `T | undefined` is a sequence of length 0   *)
(* (absent) or 1 (present).  A function body is split into operators that  *)
(* hand each intermediate value on as a parameter.                         *)
(***************************************************************************)
EXTENDS Integers, Sequences, FiniteSets, TLC

(***************************************************************************)
(* Characters and strings                                                  *)
(***************************************************************************)
\* The two typographic dashes normalizeDash rewrites, each one character.
EnDash == "u2013"
EmDash == "u2014"

None == << >>
Some(x) == <<x>>

DigitChars == <<"0", "1", "2", "3", "4", "5", "6", "7", "8", "9">>
UpperChars == <<"A", "B", "C", "D", "E", "F", "G", "H", "I", "J", "K", "L", "M",
                "N", "O", "P", "Q", "R", "S", "T", "U", "V", "W", "X", "Y", "Z">>
LowerChars == <<"a", "b", "c", "d", "e", "f", "g", "h", "i", "j", "k", "l", "m",
                "n", "o", "p", "q", "r", "s", "t", "u", "v", "w", "x", "y", "z">>

T0000 == <<"0", "0", ":", "0", "0">>
T2400 == <<"2", "4", ":", "0", "0">>

\* \d
IsDigit(c) == \E i \in 1..10 : DigitChars[i] = c
DigitValue(c) == (CHOOSE i \in 1..10 : DigitChars[i] = c) - 1
\* \s
IsSpace(c) == c \in {" ", "\t", "\n"}
NotSpace(c) == ~IsSpace(c)
NotDot(c) == c # "."

LowerChar(c) ==
  IF \E i \in 1..26 : UpperChars[i] = c
    THEN LowerChars[CHOOSE i \in 1..26 : UpperChars[i] = c]
    ELSE c
toLowerCase(s) == [i \in 1..Len(s) |-> LowerChar(s[i])]

\* The character at 1-based position i, or "" past either end.
CharAt(s, i) == IF i >= 1 /\ i <= Len(s) THEN s[i] ELSE ""
DigitAt(s, i) == IsDigit(CharAt(s, i))
\* Positions from..to of s, empty when to < from.
Slice(s, from, to) == IF to < from THEN << >> ELSE SubSeq(s, from, to)
\* The least element of a non-empty set of positions (the leftmost match).
Leftmost(positions) == CHOOSE i \in positions : \A j \in positions : i <= j

\* w occurs in s starting at position i.
MatchesAt(s, i, w) ==
  /\ i >= 1
  /\ i + Len(w) - 1 <= Len(s)
  /\ \A k \in 1..Len(w) : s[i + k - 1] = w[k]
\* String.prototype.includes
includes(s, w) == \E i \in 1..(Len(s) + 1) : MatchesAt(s, i, w)

\* The first position >= i that does not hold whitespace (greedy \s*).
RECURSIVE SkipSpaces(_, _)
SkipSpaces(s, i) == IF IsSpace(CharAt(s, i)) THEN SkipSpaces(s, i + 1) ELSE i

\* String.prototype.trim
RECURSIVE TrimEnd(_)
TrimEnd(s) ==
  IF s # << >> /\ IsSpace(s[Len(s)]) THEN TrimEnd(SubSeq(s, 1, Len(s) - 1)) ELSE s
trim(s) == TrimEnd(Slice(s, SkipSpaces(s, 1), Len(s)))

\* Number(text) for a run of decimal digits; Number("") is 0.
RECURSIVE DecimalValue(_)
DecimalValue(s) ==
  IF s = << >> THEN 0
  ELSE 10 * DecimalValue(SubSeq(s, 1, Len(s) - 1)) + DigitValue(s[Len(s)])
AllDigits(s) == \A i \in 1..Len(s) : IsDigit(s[i])

\* pad without the padding.
padBare(value) ==
  IF value < 10 THEN <<DigitChars[value + 1]>>
  ELSE <<DigitChars[(value \div 10) + 1], DigitChars[(value % 10) + 1]>>

\* hours.ts pad: value.toString().padStart(2, "0"), for 0 <= value <= 99.
pad(value) ==
  IF value < 10 THEN <<"0", DigitChars[value + 1]>>
  ELSE <<DigitChars[(value \div 10) + 1], DigitChars[(value % 10) + 1]>>

\* hours.ts normalizeDash: text.replace(/[–—]/g, "-")
normalizeDash(text) ==
  [i \in 1..Len(text) |-> IF text[i] \in {EnDash, EmDash} THEN "-" ELSE text[i]]

\* h * 60 + m of toMinutes, 0 when a part is not a number.
MinutesOfParts(h, m) ==
  IF ~AllDigits(h) \/ ~AllDigits(m) THEN 0
  ELSE DecimalValue(h) * 60 + DecimalValue(m)
ColonIndex(value) == CHOOSE i \in 1..Len(value) : value[i] = ":"
\* hours.ts toMinutes: value.split(":").map(Number), for the "H:M" texts
\* with one colon that a span holds.
toMinutes(value) ==
  MinutesOfParts(Slice(value, 1, ColonIndex(value) - 1),
                 Slice(value, ColonIndex(value) + 1, Len(value)))

(***************************************************************************)
(* Clock-time parser: hours.ts parseTimeTo24h                              *)
(***************************************************************************)
\* The meridiem suffix ("am", "pm") at position i of lower-case text, if any.
MeridiemAt(s, i) ==
  IF MatchesAt(s, i, <<"a", "m">>) THEN Some(<<"a", "m">>)
  ELSE IF MatchesAt(s, i, <<"p", "m">>) THEN Some(<<"p", "m">>)
  ELSE None

\* \d{1,2} from a digit at position i: the position of its last digit.  The
\* second digit is always taken when present: a shorter hour leaves a digit
\* that nothing after the hour can match.
HourEnd(s, i) == IF DigitAt(s, i + 1) THEN i + 1 ELSE i
\* (?::(\d{2}))? after an hour ending at hourEnd.
HasMinute(s, hourEnd) ==
  /\ CharAt(s, hourEnd + 1) = ":"
  /\ DigitAt(s, hourEnd + 2)
  /\ DigitAt(s, hourEnd + 3)
MinuteEnd(s, hourEnd) == IF HasMinute(s, hourEnd) THEN hourEnd + 3 ELSE hourEnd

\* The groups of the match, given where the hour and the minute part end;
\* None when text is left over before $.
TimeGroups(cleaned, hourEnd, minuteEnd, meridiem) ==
  IF (IF meridiem # None THEN minuteEnd + 2 ELSE minuteEnd) # Len(cleaned) THEN None
  ELSE Some([hour |-> Slice(cleaned, 1, hourEnd),
             minute |-> IF HasMinute(cleaned, hourEnd)
                          THEN Some(Slice(cleaned, hourEnd + 2, hourEnd + 3))
                          ELSE None,
             meridiem |-> meridiem])

\* cleaned.match(/^(\d{1,2})(?::(\d{2}))?(am|pm)?$/i) on lower-case text.
TimeMatch(cleaned) ==
  IF ~DigitAt(cleaned, 1) THEN None
  ELSE TimeGroups(cleaned, HourEnd(cleaned, 1), MinuteEnd(cleaned, HourEnd(cleaned, 1)),
                  MeridiemAt(cleaned, MinuteEnd(cleaned, HourEnd(cleaned, 1)) + 1))

\* AdjustHour that leaves 12am at hour 12.
AdjustHourNoMidnight(hour, meridiem) ==
  IF meridiem # None THEN
    IF hour < 1 \/ hour > 12 THEN None
    ELSE IF meridiem[1] = <<"a", "m">> THEN Some(hour)
    ELSE Some(IF hour = 12 THEN 12 ELSE hour + 12)
  ELSE IF hour < 0 \/ hour > 24 THEN None
  ELSE Some(hour)

\* The hour after the meridiem adjustment (hours.ts 62-73), None when the
\* hour is out of range.
AdjustHour(hour, meridiem) ==
  IF meridiem # None THEN
    IF hour < 1 \/ hour > 12 THEN None
    ELSE IF meridiem[1] = <<"a", "m">> THEN Some(IF hour = 12 THEN 0 ELSE hour)
    ELSE Some(IF hour = 12 THEN 12 ELSE hour + 12)
  ELSE IF hour < 0 \/ hour > 24 THEN None
  ELSE Some(hour)

\* FormatTime that lets hour 24 keep any minute.
FormatTimeAny24(minute, hour) ==
  IF minute < 0 \/ minute > 59 THEN None
  ELSE IF hour = None THEN None
  ELSE Some(pad(hour[1]) \o <<":">> \o pad(minute))

\* The checks of hours.ts 58-79 on the minute and the adjusted hour.
FormatTime(minute, hour) ==
  IF minute < 0 \/ minute > 59 THEN None
  ELSE IF hour = None THEN None
  ELSE IF hour[1] = 24 /\ minute # 0 THEN None
  ELSE Some(pad(hour[1]) \o <<":">> \o pad(minute))

TimeOfMatch(match) ==
  IF match = None THEN None
  ELSE FormatTime(IF match[1].minute # None THEN DecimalValue(match[1].minute[1]) ELSE 0,
                  AdjustHour(DecimalValue(match[1].hour), match[1].meridiem))

parseTimeTo24h(value) ==
  TimeOfMatch(TimeMatch(SelectSeq(SelectSeq(toLowerCase(value), NotSpace), NotDot)))

(***************************************************************************)
(* Day-spec parser: hours.ts DAY_REGEX, DAY_MAP, expandDayRange,           *)
(* parseDaysPart                                                           *)
(***************************************************************************)
\* DAY_MAP as (token, weekday) pairs; 0 = Sunday.
DAY_MAP == <<
  <<<<"s", "u", "n">>, 0>>,
  <<<<"s", "u", "n", "d", "a", "y">>, 0>>,
  <<<<"m", "o", "n">>, 1>>,
  <<<<"m", "o", "n", "d", "a", "y">>, 1>>,
  <<<<"t", "u", "e">>, 2>>,
  <<<<"t", "u", "e", "s">>, 2>>,
  <<<<"t", "u", "e", "s", "d", "a", "y">>, 2>>,
  <<<<"w", "e", "d">>, 3>>,
  <<<<"w", "e", "d", "s">>, 3>>,
  <<<<"w", "e", "d", "n", "e", "s", "d", "a", "y">>, 3>>,
  <<<<"t", "h", "u">>, 4>>,
  <<<<"t", "h", "u", "r">>, 4>>,
  <<<<"t", "h", "u", "r", "s">>, 4>>,
  <<<<"t", "h", "u", "r", "s", "d", "a", "y">>, 4>>,
  <<<<"f", "r", "i">>, 5>>,
  <<<<"f", "r", "i", "d", "a", "y">>, 5>>,
  <<<<"s", "a", "t">>, 6>>,
  <<<<"s", "a", "t", "u", "r", "d", "a", "y">>, 6>>>>

\* DAY_MAP[token], None for a token that is not a key.
DayMapHits(token) == {k \in 1..Len(DAY_MAP) : DAY_MAP[k][1] = token}
DayMapLookup(token) ==
  IF DayMapHits(token) = {} THEN None
  ELSE Some(DAY_MAP[CHOOSE k \in DayMapHits(token) : TRUE][2])

\* The alternation of DAY_REGEX: each stem with its optional suffixes in the
\* order the regular expression tries them.
DAY_REGEX == <<
  [stem |-> <<"s", "u", "n">>, suffixes |-> <<<<"d", "a", "y">>>>],
  [stem |-> <<"m", "o", "n">>, suffixes |-> <<<<"d", "a", "y">>>>],
  [stem |-> <<"t", "u", "e">>, suffixes |-> <<<<"s">>, <<"s", "d", "a", "y">>>>],
  [stem |-> <<"w", "e", "d">>, suffixes |-> <<<<"n", "e", "s", "d", "a", "y">>>>],
  [stem |-> <<"t", "h", "u">>, suffixes |-> <<<<"r">>, <<"r", "s">>, <<"r", "s", "d", "a", "y">>>>],
  [stem |-> <<"f", "r", "i">>, suffixes |-> <<<<"d", "a", "y">>>>],
  [stem |-> <<"s", "a", "t">>, suffixes |-> <<<<"u", "r", "d", "a", "y">>>>]>>

\* The alternatives whose stem stands at position i (at most one).
DayStemsAt(s, i) == {a \in 1..Len(DAY_REGEX) : MatchesAt(s, i, DAY_REGEX[a].stem)}
\* The positions right after each way a weekday can match at position i, in
\* the order the expression tries them: every optional suffix that fits,
\* then the bare stem.
SuffixEnds(i, fits) == [k \in 1..Len(fits) |-> i + 3 + Len(fits[k])] \o <<i + 3>>
DayTokenEnds(s, i) ==
  IF DayStemsAt(s, i) = {} THEN << >>
  ELSE SuffixEnds(i, SelectSeq(DAY_REGEX[CHOOSE a \in DayStemsAt(s, i) : TRUE].suffixes,
                               LAMBDA w : MatchesAt(s, i + 3, w)))

\* The position after (?:-|to)\s* read at position p, 0 when neither is there.
SeparatorEnd(s, p) ==
  IF CharAt(s, p) = "-" THEN SkipSpaces(s, p + 1)
  ELSE IF MatchesAt(s, p, <<"t", "o">>) THEN SkipSpaces(s, p + 2)
  ELSE 0
\* The position after \s*(?:-|to)\s* read from position e, 0 when absent.
AfterRangeSeparator(s, e) == SeparatorEnd(s, SkipSpaces(s, e))
\* A second weekday starts at position q, the end of a separator.
SecondDayAt(s, q) == q # 0 /\ DayTokenEnds(s, q) # << >>

\* The two captured tokens of the weekday-range expression matched at
\* position i, given the ends of the first token after which the rest of the
\* expression matches.  The first token backtracks to a shorter form when
\* the separator does not follow the longer one; the second is followed by
\* nothing and keeps its first form.
DayRangeGroups(s, i, e1, q) ==
  <<Slice(s, i, e1 - 1), Slice(s, q, DayTokenEnds(s, q)[1] - 1)>>
DayRangeOf(s, i, usable) ==
  IF usable = << >> THEN None
  ELSE Some(DayRangeGroups(s, i, usable[1], AfterRangeSeparator(s, usable[1])))
DayRangeAt(s, i) ==
  DayRangeOf(s, i, SelectSeq(DayTokenEnds(s, i),
                             LAMBDA e : SecondDayAt(s, AfterRangeSeparator(s, e))))

\* normalized.match(range expression): the leftmost match.
DayRangeLeftmost(s, starts) ==
  IF starts = {} THEN None ELSE DayRangeAt(s, Leftmost(starts))
DayRangeMatch(s) == DayRangeLeftmost(s, {i \in 1..Len(s) : DayRangeAt(s, i) # None})

\* normalized.match(DAY_REGEX): every match, left to right, not overlapping.
RECURSIVE DayMatchesFrom(_, _)
DayMatchesFrom(s, i) ==
  IF i > Len(s) THEN << >>
  ELSE IF DayTokenEnds(s, i) = << >> THEN DayMatchesFrom(s, i + 1)
  ELSE <<Slice(s, i, DayTokenEnds(s, i)[1] - 1)>>
         \o DayMatchesFrom(s, DayTokenEnds(s, i)[1])

\* AppendNew that keeps duplicates.
AppendAlways(front, last) == Append(front, last)

\* Array.from(new Set(days)): first occurrences, in order.
AppendNew(front, last) ==
  IF \E k \in 1..Len(front) : front[k] = last THEN front ELSE Append(front, last)
RECURSIVE Unique(_)
Unique(seq) ==
  IF seq = << >> THEN << >>
  ELSE AppendNew(Unique(SubSeq(seq, 1, Len(seq) - 1)), seq[Len(seq)])

RECURSIVE ExpandFrom(_, _, _)
ExpandFrom(current, end, i) ==
  IF i >= 7 THEN << >>
  ELSE IF current = end THEN <<current>>
  ELSE <<current>> \o ExpandFrom((current + 1) % 7, end, i + 1)

expandDayRange(start, end) == ExpandFrom(start, end, 0)

\* matches.map((token) => DAY_MAP[token]).filter((day) => day !== undefined)
RECURSIVE MappedDays(_)
MappedDays(tokens) ==
  IF tokens = << >> THEN << >>
  ELSE DayMapLookup(Head(tokens)) \o MappedDays(Tail(tokens))

\* hours.ts 117-122
DaysOfTokens(normalized) == Unique(MappedDays(DayMatchesFrom(normalized, 1)))
\* hours.ts 110-114
DaysOfBounds(normalized, start, end) ==
  IF start # None /\ end # None THEN expandDayRange(start[1], end[1])
  ELSE DaysOfTokens(normalized)
\* hours.ts 109-122
DaysOfRange(normalized, rangeMatch) ==
  IF rangeMatch = None THEN DaysOfTokens(normalized)
  ELSE DaysOfBounds(normalized, DayMapLookup(rangeMatch[1][1]),
                    DayMapLookup(rangeMatch[1][2]))
\* hours.ts 97-122
DaysOfNormalized(normalized) ==
  IF normalized = << >> THEN << >>
  ELSE IF \/ includes(normalized, <<"d", "a", "i", "l", "y">>)
          \/ includes(normalized, <<"e", "v", "e", "r", "y", " ", "d", "a", "y">>)
          \/ includes(normalized, <<"e", "v", "e", "r", "y", "d", "a", "y">>)
    THEN <<0, 1, 2, 3, 4, 5, 6>>
  ELSE DaysOfRange(normalized, DayRangeMatch(normalized))

parseDaysPart(text) == DaysOfNormalized(trim(normalizeDash(toLowerCase(text))))

(***************************************************************************)
(* Time-range parser: hours.ts parseTimeRange                              *)
(***************************************************************************)
\* The position after \d{1,2}(?::\d{2})?\s*(?:am|pm)? read greedily from a
\* digit at position i of lower-case text (flag i).
MeridiemEnd(ls, p) == IF MeridiemAt(ls, p) # None THEN p + 2 ELSE p
TimeTokenEnd(ls, i) == MeridiemEnd(ls, SkipSpaces(ls, MinuteEnd(ls, HourEnd(ls, i)) + 1))

\* The two groups of the time-range expression matched at position i.  Group
\* 1 has one way to reach the hyphen (a shorter hour, a dropped minute part
\* or a dropped meridiem each leave a character the hyphen cannot match);
\* group 2 is followed by nothing and is read greedily.
TimeRangeSecond(s, ls, i, e1, q) ==
  IF ~DigitAt(ls, q) THEN None
  ELSE Some(<<Slice(s, i, e1 - 1), Slice(s, q, TimeTokenEnd(ls, q) - 1)>>)
TimeRangeHyphen(s, ls, i, e1, hyphen) ==
  IF CharAt(ls, hyphen) # "-" THEN None
  ELSE TimeRangeSecond(s, ls, i, e1, SkipSpaces(ls, hyphen + 1))
TimeRangeFirst(s, ls, i, e1) == TimeRangeHyphen(s, ls, i, e1, SkipSpaces(ls, e1))
TimeRangeIn(s, ls, i) ==
  IF ~DigitAt(ls, i) THEN None ELSE TimeRangeFirst(s, ls, i, TimeTokenEnd(ls, i))
TimeRangeAt(s, i) == TimeRangeIn(s, toLowerCase(s), i)

\* normalized.match(time-range expression): the leftmost match.
TimeRangeLeftmost(s, starts) ==
  IF starts = {} THEN None ELSE TimeRangeAt(s, Leftmost(starts))
TimeRangeMatch(s) == TimeRangeLeftmost(s, {i \in 1..Len(s) : TimeRangeAt(s, i) # None})

\* /24\s*hours?/i.test(s) || /open\s*24/i.test(s), on lower-case text.
AllDayMarkerIn(ls) ==
  \E i \in 1..Len(ls) :
    \/ /\ MatchesAt(ls, i, <<"2", "4">>)
       /\ MatchesAt(ls, SkipSpaces(ls, i + 2), <<"h", "o", "u", "r">>)
    \/ /\ MatchesAt(ls, i, <<"o", "p", "e", "n">>)
       /\ MatchesAt(ls, SkipSpaces(ls, i + 4), <<"2", "4">>)
AllDayMarker(s) == AllDayMarkerIn(toLowerCase(s))

\* hours.ts 141-145
TimesOfPair(open, close) ==
  IF open = None \/ close = None THEN None
  ELSE Some([open |-> open[1], close |-> close[1]])
\* hours.ts 135-145
TimesOfMatch(match) ==
  IF match = None THEN None
  ELSE TimesOfPair(parseTimeTo24h(match[1][1]), parseTimeTo24h(match[1][2]))
\* hours.ts 127-145
TimeRangeOf(normalized) ==
  IF AllDayMarker(normalized) THEN Some([open |-> T0000, close |-> T2400])
  ELSE TimesOfMatch(TimeRangeMatch(normalized))

parseTimeRange(text) == TimeRangeOf(normalizeDash(text))

(***************************************************************************)
(* Line/interval parser: hours.ts normalizeSpan, parseHoursLines           *)
(***************************************************************************)
\* SplitSpan with the Saturday wrap forgotten: the second half lands on day + 1.
SplitSpanNoWrap(span, openMinutes, closeMinutes) ==
  IF openMinutes = closeMinutes THEN << >>
  ELSE IF openMinutes < closeMinutes THEN <<span>>
  ELSE <<[day |-> span.day, open |-> span.open, close |-> T2400],
         [day |-> span.day + 1, open |-> T0000, close |-> span.close]>>

\* SplitSpan with the second half left on the day the range starts.
SplitSpanSameDay(span, openMinutes, closeMinutes) ==
  IF openMinutes = closeMinutes THEN << >>
  ELSE IF openMinutes < closeMinutes THEN <<span>>
  ELSE <<[day |-> span.day, open |-> span.open, close |-> T2400],
         [day |-> span.day, open |-> T0000, close |-> span.close]>>

\* hours.ts 152-163
SplitSpan(span, openMinutes, closeMinutes) ==
  IF openMinutes = closeMinutes THEN << >>
  ELSE IF openMinutes < closeMinutes THEN <<span>>
  ELSE <<[day |-> span.day, open |-> span.open, close |-> T2400],
         [day |-> (span.day + 1) % 7, open |-> T0000, close |-> span.close]>>

normalizeSpan(span) == SplitSpan(span, toMinutes(span.open), toMinutes(span.close))

\* normalizeDash(line).search(/\d/): 0-based index of the first digit, -1
\* when there is none.
FirstDigitOf(digits) == IF digits = {} THEN -1 ELSE Leftmost(digits) - 1
FirstDigitIndex(line) == FirstDigitOf({i \in 1..Len(line) : IsDigit(line[i])})

\* timeIndex > 0 ? line.slice(0, timeIndex) : line
DaysPart(line, timeIndex) == IF timeIndex > 0 THEN SubSeq(line, 1, timeIndex) ELSE line

\* hours.ts 188-194: one span per day (none when days is empty).
SpansOfDays(days, timeRange) ==
  [k \in 1..Len(days) |->
     [day |-> days[k], open |-> timeRange.open, close |-> timeRange.close]]
\* hours.ts 180-194
SpansOfTimeRange(line, timeRange) ==
  IF timeRange = None THEN << >>
  ELSE SpansOfDays(parseDaysPart(DaysPart(line, FirstDigitIndex(normalizeDash(line)))),
                   timeRange[1])
\* SpansOfLine without the "closed" marker test.
SpansOfLineKeepClosed(line) ==
  IF line = << >> THEN << >>
  ELSE SpansOfTimeRange(line, parseTimeRange(line))

\* SpansOfLine with the marker looked for in lower case only.
SpansOfLineCaseSensitive(line) ==
  IF line = << >> THEN << >>
  ELSE IF includes(line, <<"c", "l", "o", "s", "e", "d">>) THEN << >>
  ELSE SpansOfTimeRange(line, parseTimeRange(line))

\* hours.ts 171-194
SpansOfLine(line) ==
  IF line = << >> THEN << >>
  ELSE IF includes(toLowerCase(line), <<"c", "l", "o", "s", "e", "d">>) THEN << >>
  ELSE SpansOfTimeRange(line, parseTimeRange(line))

\* One iteration of the loop of parseHoursLines: the spans the line pushes,
\* before normalizeSpan.
LineSpans(rawLine) == SpansOfLine(trim(rawLine))

\* spans.flatMap((span) => normalizeSpan(span))
RECURSIVE FlatMapNormalize(_)
FlatMapNormalize(spans) ==
  IF spans = << >> THEN << >>
  ELSE normalizeSpan(Head(spans)) \o FlatMapNormalize(Tail(spans))

\* PushedSpans that gives up at the first line that pushes nothing.
RECURSIVE PushedSpansUntilGap(_)
PushedSpansUntilGap(lines) ==
  IF lines = << >> THEN << >>
  ELSE IF LineSpans(Head(lines)) = << >> THEN << >>
  ELSE LineSpans(Head(lines)) \o PushedSpansUntilGap(Tail(lines))

RECURSIVE PushedSpans(_)
PushedSpans(lines) ==
  IF lines = << >> THEN << >>
  ELSE LineSpans(Head(lines)) \o PushedSpans(Tail(lines))

parseHoursLines(lines) == FlatMapNormalize(PushedSpans(lines))

(***************************************************************************)
(* Status engine: hours.ts isOpenAt, getHoursStatus.  The query instant is *)
(* given as the (day, minutes) that getZonedParts returns for it.          *)
(***************************************************************************)
\* spans.filter((span) => span.day === day)
SpansOnDay(spans, day) == SelectSeq(spans, LAMBDA span : span.day = day)

\* ContainsMinute with the opening minute left outside.
ContainsMinuteAfterOpen(span, minutes) ==
  minutes > toMinutes(span.open) /\ minutes < toMinutes(span.close)

\* minutes >= toMinutes(span.open) && minutes < toMinutes(span.close)
ContainsMinute(span, minutes) ==
  minutes >= toMinutes(span.open) /\ minutes < toMinutes(span.close)

isOpenAtAnyDay(spans, day, minutes) ==
  IF Len(spans) = 0 THEN FALSE
  ELSE \E k \in 1..Len(spans) : ContainsMinute(spans[k], minutes)

isOpenAt(spans, day, minutes) ==
  IF Len(spans) = 0 THEN FALSE
  ELSE \E k \in 1..Len(spans) :
         IF spans[k].day # day THEN FALSE ELSE ContainsMinute(spans[k], minutes)

\* Array.prototype.find, and the first element kept by a loop that breaks.
FirstOf(hits) == IF hits = << >> THEN None ELSE Some(hits[1])

\* The loop of getHoursStatus (hours.ts 260-268): the first span of the day
\* that contains the minute.
FindOpenSpan(daySpans, minutes) ==
  FirstOf(SelectSeq(daySpans, LAMBDA span : ContainsMinute(span, minutes)))

OpenAllDay(openSpan) == openSpan.open = T0000 /\ openSpan.close = T2400

\* MidnightSpan that takes the first span of the next day, whenever it opens.
MidnightSpanAny(spans, day) == FirstOf(SpansOnDay(spans, (day + 1) % 7))

\* nextDaySpans.find((span) => span.open === "00:00")
MidnightSpan(spans, day) ==
  FirstOf(SelectSeq(SpansOnDay(spans, (day + 1) % 7), LAMBDA span : span.open = T0000))

\* MergedClose that never looks at the following day.
MergedCloseToMidnight(openSpan, minutes, midnightSpan) ==
  Some(toMinutes(openSpan.close) - minutes)

\* hours.ts 274-281 for a span that closes at 24:00.
MergedClose(openSpan, minutes, midnightSpan) ==
  IF midnightSpan # None
    THEN Some(24 * 60 - minutes + toMinutes(midnightSpan[1].close))
  ELSE Some(toMinutes(openSpan.close) - minutes)

\* MinutesUntilClose without the all-day case.
MinutesUntilCloseAlways(spans, openSpan, day, minutes) ==
  IF openSpan.close = T2400
    THEN MergedClose(openSpan, minutes, MidnightSpan(spans, day))
  ELSE Some(toMinutes(openSpan.close) - minutes)

\* minutesUntilClose as hours.ts 272-283 leaves it.
MinutesUntilClose(spans, openSpan, day, minutes) ==
  IF OpenAllDay(openSpan) THEN None
  ELSE IF openSpan.close = T2400
    THEN MergedClose(openSpan, minutes, MidnightSpan(spans, day))
  ELSE Some(toMinutes(openSpan.close) - minutes)

\* OpenResult with a strict closing-soon comparison.
OpenResultStrict(openSpan, minutesUntilClose, closingSoonMinutes) ==
  IF /\ ~OpenAllDay(openSpan)
     /\ minutesUntilClose # None
     /\ minutesUntilClose[1] < closingSoonMinutes
    THEN [status |-> "closing_soon", minutesUntilClose |-> minutesUntilClose[1]]
  ELSE IF minutesUntilClose = None THEN [status |-> "open"]
  ELSE [status |-> "open", minutesUntilClose |-> minutesUntilClose[1]]

\* hours.ts 284-287
OpenResult(openSpan, minutesUntilClose, closingSoonMinutes) ==
  IF /\ ~OpenAllDay(openSpan)
     /\ minutesUntilClose # None
     /\ minutesUntilClose[1] <= closingSoonMinutes
    THEN [status |-> "closing_soon", minutesUntilClose |-> minutesUntilClose[1]]
  ELSE IF minutesUntilClose = None THEN [status |-> "open"]
  ELSE [status |-> "open", minutesUntilClose |-> minutesUntilClose[1]]

\* Array.prototype.sort((a, b) => a - b) on numbers.
RECURSIVE SortAscending(_)
InsertSorted(head, rest) ==
  SelectSeq(rest, LAMBDA v : v <= head) \o <<head>> \o SelectSeq(rest, LAMBDA v : v > head)
SortAscending(seq) ==
  IF seq = << >> THEN << >> ELSE InsertSorted(Head(seq), SortAscending(Tail(seq)))

\* span => toMinutes(span.open), mapped over a span list.
OpenMinutes(spanList) == [k \in 1..Len(spanList) |-> toMinutes(spanList[k].open)]

\* NextOpenToday without the sort: the first later opening in list order.
NextOpenTodayUnsorted(daySpans, minutes) ==
  FirstOf(SelectSeq(OpenMinutes(daySpans), LAMBDA openMinutes : openMinutes > minutes))

\* NextOpenToday that also counts an opening at the asked minute itself.
NextOpenTodayFromNow(daySpans, minutes) ==
  FirstOf(SortAscending(SelectSeq(OpenMinutes(daySpans),
                                  LAMBDA openMinutes : openMinutes >= minutes)))

\* hours.ts 290-293
NextOpenToday(daySpans, minutes) ==
  FirstOf(SortAscending(SelectSeq(OpenMinutes(daySpans),
                                  LAMBDA openMinutes : openMinutes > minutes)))

\* Math.min(...values) for a non-empty list.
MathMin(values) ==
  values[CHOOSE k \in 1..Len(values) : \A j \in 1..Len(values) : values[k] <= values[j]]

\* OpenCountdown that takes the first span of the next day, not the earliest.
OpenCountdownFirst(nextOpenToday, nextDaySpans, minutes) ==
  IF nextOpenToday # None THEN Some(nextOpenToday[1] - minutes)
  ELSE IF Len(nextDaySpans) # 0
    THEN Some(24 * 60 - minutes + OpenMinutes(nextDaySpans)[1])
  ELSE None

\* OpenCountdown that leaves out the rest of today before tomorrow's opening.
OpenCountdownNoWrap(nextOpenToday, nextDaySpans, minutes) ==
  IF nextOpenToday # None THEN Some(nextOpenToday[1] - minutes)
  ELSE IF Len(nextDaySpans) # 0
    THEN Some(MathMin(OpenMinutes(nextDaySpans)))
  ELSE None

\* hours.ts 295-305
OpenCountdown(nextOpenToday, nextDaySpans, minutes) ==
  IF nextOpenToday # None THEN Some(nextOpenToday[1] - minutes)
  ELSE IF Len(nextDaySpans) # 0
    THEN Some(24 * 60 - minutes + MathMin(OpenMinutes(nextDaySpans)))
  ELSE None

MinutesUntilOpen(spans, daySpans, day, minutes) ==
  OpenCountdown(NextOpenToday(daySpans, minutes), SpansOnDay(spans, (day + 1) % 7), minutes)

\* ClosedResult with a strict opening-soon comparison.
ClosedResultStrict(minutesUntilOpen, openingSoonMinutes) ==
  IF minutesUntilOpen # None /\ minutesUntilOpen[1] < openingSoonMinutes
    THEN [status |-> "opening_soon", minutesUntilOpen |-> minutesUntilOpen[1]]
  ELSE IF minutesUntilOpen = None THEN [status |-> "closed"]
  ELSE [status |-> "closed", minutesUntilOpen |-> minutesUntilOpen[1]]

\* hours.ts 307-311
ClosedResult(minutesUntilOpen, openingSoonMinutes) ==
  IF minutesUntilOpen # None /\ minutesUntilOpen[1] <= openingSoonMinutes
    THEN [status |-> "opening_soon", minutesUntilOpen |-> minutesUntilOpen[1]]
  ELSE IF minutesUntilOpen = None THEN [status |-> "closed"]
  ELSE [status |-> "closed", minutesUntilOpen |-> minutesUntilOpen[1]]

\* options.closingSoonMinutes ?? 90 and options.openingSoonMinutes ?? 60;
\* options is a record that may lack either field.
DefaultClosingSoon == 90
DefaultOpeningSoon == 60
ClosingSoonOf(options) ==
  IF "closingSoonMinutes" \in DOMAIN options THEN options.closingSoonMinutes
  ELSE DefaultClosingSoon
OpeningSoonOf(options) ==
  IF "openingSoonMinutes" \in DOMAIN options THEN options.openingSoonMinutes
  ELSE DefaultOpeningSoon

\* hours.ts 270-311
StatusOfOpenSpan(spans, daySpans, openSpan, day, minutes, options) ==
  IF openSpan # None
    THEN OpenResult(openSpan[1], MinutesUntilClose(spans, openSpan[1], day, minutes),
                    ClosingSoonOf(options))
  ELSE ClosedResult(MinutesUntilOpen(spans, daySpans, day, minutes),
                    OpeningSoonOf(options))
\* hours.ts 258-311
StatusOnDay(spans, daySpans, day, minutes, options) ==
  StatusOfOpenSpan(spans, daySpans, FindOpenSpan(daySpans, minutes), day, minutes, options)

getHoursStatus(spans, day, minutes, options) ==
  IF Len(spans) = 0 THEN [status |-> "closed"]
  ELSE StatusOnDay(spans, SpansOnDay(spans, day), day, minutes, options)

(***************************************************************************)
(* The program as a state machine.  A club's hours set is built once,      *)
(* either by the scraper from the text lines of a page section             *)
(* (buildHoursSet) or by reading stored club data (loadClubs), and is then *)
(* queried.  The engine keeps nothing between queries, so one query per    *)
(* behaviour reaches every (hours set, query) pair.                        *)
(***************************************************************************)
\* Longest line sequence handed to buildHoursSet.
MaxLines == 2
\* Longest span list read from stored club data.
MaxSpans == 2

\* Text lines a scraped hours section may hold.
PageLines == {
  \* "Tue 10:00pm - 2:00am"
  <<"T", "u", "e", " ", "1", "0", ":", "0", "0", "p", "m", " ", "-", " ", "2", ":", "0", "0", "a", "m">>,
  \* "Mon-Fri 6:00am - 10:00pm"
  <<"M", "o", "n", "-", "F", "r", "i", " ", "6", ":", "0", "0", "a", "m", " ", "-", " ", "1", "0", ":", "0", "0", "p", "m">>,
  \* "Sat-Sun 8:00am - 8:00pm"
  <<"S", "a", "t", "-", "S", "u", "n", " ", "8", ":", "0", "0", "a", "m", " ", "-", " ", "8", ":", "0", "0", "p", "m">>,
  \* "Daily 24 hours"
  <<"D", "a", "i", "l", "y", " ", "2", "4", " ", "h", "o", "u", "r", "s">>,
  \* "Sat 10pm - 12am"
  <<"S", "a", "t", " ", "1", "0", "p", "m", " ", "-", " ", "1", "2", "a", "m">>,
  \* "Sat 24 - 2"
  <<"S", "a", "t", " ", "2", "4", " ", "-", " ", "2">>,
  \* "Sunday closed 9am - 5pm"
  <<"S", "u", "n", "d", "a", "y", " ", "c", "l", "o", "s", "e", "d", " ", "9", "a", "m", " ", "-", " ", "5", "p", "m">>,
  \* ""
  <<>>,
  \* "Hours vary"
  <<"H", "o", "u", "r", "s", " ", "v", "a", "r", "y">>,
  \* "Wed 9am - 9am"
  <<"W", "e", "d", " ", "9", "a", "m", " ", "-", " ", "9", "a", "m">>,
  \* "Tue 25 - 3"
  <<"T", "u", "e", " ", "2", "5", " ", "-", " ", "3">>,
  \* "Holidays 9am - 5pm"
  <<"H", "o", "l", "i", "d", "a", "y", "s", " ", "9", "a", "m", " ", "-", " ", "5", "p", "m">>
}

\* Spans that stored club data may hold (types.ts HoursSpan: open and close
\* are HH:mm, "24:00 allowed"), each with open < close.
StoredTimes == {T0000, <<"0", "2", ":", "0", "0">>, <<"2", "2", ":", "0", "0">>, T2400}
StoredDays == {6, 0}
StoredSpans ==
  {span \in [day : StoredDays, open : StoredTimes, close : StoredTimes] :
     toMinutes(span.open) < toMinutes(span.close)}

\* Sequences over S of length 0..n.
SeqsUpTo(S, n) == UNION {[1..k -> S] : k \in 0..n}

\* Query instants, as local (day, minutes), and threshold options.
QueryDays == 0..6
QueryMinutes == {0, 90, 120, 299, 300, 1229, 1230, 1305, 1410, 1439}
QueryOptions ==
  { << >>,
    [closingSoonMinutes |-> 0, openingSoonMinutes |-> 0],
    [closingSoonMinutes |-> 2000, openingSoonMinutes |-> 2000] }

NoQuery == [kind |-> "none"]
NoResult == [status |-> "none"]

VARIABLES
  pc,      \* "new", "ready" (hours set built), "status" or "open" (query answered)
  origin,  \* "none", "scraped" or "stored"
  raw,     \* HoursSet.raw: the lines the set was built from
  spans,   \* HoursSet.spans
  query,   \* the last query: its kind, day, minutes and options
  result,  \* the last answer: a HoursStatusResult, or [open |-> BOOLEAN]
  hours,     \* Club.hours: the primary hours set and the service hours sets
  lastIndex, \* DAY_REGEX.lastIndex, the one module-level field of hours.ts
  pending,   \* the scraper's loop: URLs it has still to fetch
  slept,     \* milliseconds the scraper has slept since its last request
  gap        \* milliseconds slept between the last two requests

vars == <<pc, origin, raw, spans, query, result, hours, lastIndex, pending, slept, gap>>

\* State of the service selection and of the scraper's run, which the
\* parser and the status engine do not touch.
clubVars == <<hours, lastIndex>>
scraperVars == <<pending, slept, gap>>
NoHours == [club |-> [spans |-> << >>], amenities |-> << >>]
ClubInit == hours = NoHours /\ lastIndex = 0
ScraperInit == pending = 0 /\ slept = None /\ gap = None

Init ==
  /\ pc = "new"
  /\ origin = "none"
  /\ raw = << >>
  /\ spans = << >>
  /\ query = NoQuery
  /\ result = NoResult
  /\ ClubInit
  /\ ScraperInit

\* scrape-equinox.ts buildHoursSet: { spans: parseHoursLines(lines), raw: lines }
buildHoursSet(lines) ==
  /\ pc = "new"
  /\ pc' = "ready"
  /\ origin' = "scraped"
  /\ raw' = lines
  /\ spans' = parseHoursLines(lines)
  /\ UNCHANGED <<query, result, clubVars, scraperVars>>

\* loadClubs: club data read back from clubs.json, spans as stored.
loadClubs(stored) ==
  /\ pc = "new"
  /\ pc' = "ready"
  /\ origin' = "stored"
  /\ raw' = << >>
  /\ spans' = stored
  /\ UNCHANGED <<query, result, clubVars, scraperVars>>

\* A status query (getHoursStatus as the page calls it).
StatusQuery(day, minutes, options) ==
  /\ pc = "ready"
  /\ pc' = "status"
  /\ query' = [kind |-> "status", day |-> day, minutes |-> minutes, options |-> options]
  /\ result' = getHoursStatus(spans, day, minutes, options)
  /\ UNCHANGED <<origin, raw, spans, clubVars, scraperVars>>

\* An open-now query (isOpenAt as the open-clubs route calls it).
OpenQuery(day, minutes) ==
  /\ pc = "ready"
  /\ pc' = "open"
  /\ query' = [kind |-> "open", day |-> day, minutes |-> minutes]
  /\ result' = [open |-> isOpenAt(spans, day, minutes)]
  /\ UNCHANGED <<origin, raw, spans, clubVars, scraperVars>>

\* Each step is enabled by the position alone; its inputs are drawn after.
Scrape == pc = "new" /\ \E lines \in SeqsUpTo(PageLines, MaxLines) : buildHoursSet(lines)
Load == pc = "new" /\ \E stored \in SeqsUpTo(StoredSpans, MaxSpans) : loadClubs(stored)
AskStatus ==
  /\ pc = "ready"
  /\ \E day \in QueryDays, minutes \in QueryMinutes, options \in QueryOptions :
       StatusQuery(day, minutes, options)
AskOpen ==
  /\ pc = "ready"
  /\ \E day \in QueryDays, minutes \in QueryMinutes : OpenQuery(day, minutes)

Next == Scrape \/ Load \/ AskStatus \/ AskOpen

Spec == Init /\ [][Next]_vars

(***************************************************************************)
(* Vocabulary of the properties: times in minutes since midnight.          *)
(***************************************************************************)
OpenOf(span) == toMinutes(span.open)
CloseOf(span) == toMinutes(span.close)
Scraped == origin = "scraped"
Answered == pc = "status"
DefaultThresholds == query.options = << >>
Has(record, field) == field \in DOMAIN record

TueOvernightLine == <<"T", "u", "e", " ", "1", "0", ":", "0", "0", "p", "m", " ", "-", " ", "2", ":", "0", "0", "a", "m">>
WeekdayLine == <<"M", "o", "n", "-", "F", "r", "i", " ", "6", ":", "0", "0", "a", "m", " ", "-", " ", "1", "0", ":", "0", "0", "p", "m">>
WeekendLine == <<"S", "a", "t", "-", "S", "u", "n", " ", "8", ":", "0", "0", "a", "m", " ", "-", " ", "8", ":", "0", "0", "p", "m">>
DailyLine == <<"D", "a", "i", "l", "y", " ", "2", "4", " ", "h", "o", "u", "r", "s">>
SatToMidnightLine == <<"S", "a", "t", " ", "1", "0", "p", "m", " ", "-", " ", "1", "2", "a", "m">>
SatFrom24Line == <<"S", "a", "t", " ", "2", "4", " ", "-", " ", "2">>

(***************************************************************************)
(* C1                                                                      *)
(***************************************************************************)
\* C1: every interval parseHoursLines returns has its day in 0..6 and
\* 00:00 <= open < close <= 24:00 in minutes since midnight, so no interval
\* is zero-length and none starts at 24:00.
C1_ParsedIntervalsCanonical ==
  Scraped =>
    \A k \in 1..Len(spans) :
      /\ spans[k].day \in 0..6
      /\ 0 <= OpenOf(spans[k])
      /\ OpenOf(spans[k]) < CloseOf(spans[k])
      /\ CloseOf(spans[k]) <= 24 * 60

(***************************************************************************)
(* C2                                                                      *)
(***************************************************************************)
\* What the overnight rule asks of one pushed span, stated in minutes.
ExpectedSplit(naive) ==
  IF OpenOf(naive) > CloseOf(naive)
    THEN <<[day |-> naive.day, open |-> naive.open, close |-> T2400],
           [day |-> (naive.day + 1) % 7, open |-> T0000, close |-> naive.close]>>
  ELSE IF OpenOf(naive) = CloseOf(naive) THEN << >>
  ELSE <<naive>>

RECURSIVE ExpectedSpans(_)
ExpectedSpans(pushed) ==
  IF pushed = << >> THEN << >>
  ELSE ExpectedSplit(Head(pushed)) \o ExpectedSpans(Tail(pushed))

\* Minutes of the week (0 = Sunday 00:00) that a list of intervals covers.
WeekMinutesOf(spanList) ==
  UNION {{spanList[k].day * 24 * 60 + m : m \in OpenOf(spanList[k])..(CloseOf(spanList[k]) - 1)} :
           k \in 1..Len(spanList)}
\* Minutes of the week from open on the span's day up to close on the next.
WrapMinutesOf(naive) ==
  {(naive.day * 24 * 60 + m) % (7 * 24 * 60) :
     m \in OpenOf(naive)..(24 * 60 + CloseOf(naive) - 1)}

\* The overnight rule over the spans one parse pushed.
SplitAsExpected(pushed, produced) ==
  /\ produced = ExpectedSpans(pushed)
  /\ \A k \in 1..Len(pushed) :
       OpenOf(pushed[k]) > CloseOf(pushed[k]) =>
         WeekMinutesOf(normalizeSpan(pushed[k])) = WrapMinutesOf(pushed[k])

\* C2: the spans of a scraped set are, line by line and day by day, the
\* pushed span itself when open < close, nothing when open = close, and the
\* two halves {d, open, 24:00}, {(d+1) mod 7, 00:00, close} when open > close;
\* the two halves cover exactly the minutes of the week from open on day d to
\* close on the following day.
C2_OvernightSplit ==
  (Scraped /\ pc = "ready") => SplitAsExpected(PushedSpans(raw), spans)

\* A Saturday range that crosses midnight has been split into Sunday.
C2_Witness ==
  /\ Scraped /\ pc = "ready"
  /\ raw = <<SatToMidnightLine, TueOvernightLine>>
  /\ \E k \in 1..Len(spans) : spans[k].day = 0 /\ spans[k].open = T0000

(***************************************************************************)
(* C3                                                                      *)
(***************************************************************************)
\* The query of C3: the Tuesday overnight line, asked at Wednesday 01:30
\* with the default thresholds.
C3_Case ==
  /\ Scraped /\ Answered
  /\ raw = <<TueOvernightLine>>
  /\ query.day = 3 /\ query.minutes = 90
  /\ DefaultThresholds

\* C3 as stated: the answer is Open with 30 minutes until close.
C3_TueOvernightOpen ==
  C3_Case => result = [status |-> "open", minutesUntilClose |-> 30]

\* C3 amended: 30 minutes is within the default closing-soon window of 90,
\* so the answer is ClosingSoon with 30 minutes until close.
C3_TueOvernightClosingSoon ==
  C3_Case => result = [status |-> "closing_soon", minutesUntilClose |-> 30]

C3_Witness == C3_Case /\ result.status = "closing_soon"

(***************************************************************************)
(* Vocabulary of the status properties, stated over the answered query in  *)
(* minutes since midnight and independently of the engine's operators.     *)
(***************************************************************************)
At0200 == <<"0", "2", ":", "0", "0">>
At2200 == <<"2", "2", ":", "0", "0">>
ClosedSundayLine == <<"S", "u", "n", "d", "a", "y", " ", "c", "l", "o", "s", "e", "d", " ", "9", "a", "m", " ", "-", " ", "5", "p", "m">>
NoTimeLine == <<"H", "o", "u", "r", "s", " ", "v", "a", "r", "y">>
BadHourLine == <<"T", "u", "e", " ", "2", "5", " ", "-", " ", "3">>
NoDayLine == <<"H", "o", "l", "i", "d", "a", "y", "s", " ", "9", "a", "m", " ", "-", " ", "5", "p", "m">>

MinOf(S) == CHOOSE x \in S : \A y \in S : x <= y
NextDay == (query.day + 1) % 7
IsAllDay(span) == OpenOf(span) = 0 /\ CloseOf(span) = 24 * 60

\* Positions of the intervals of the query day that contain the query minute.
Containing ==
  {k \in 1..Len(spans) :
     /\ spans[k].day = query.day
     /\ OpenOf(spans[k]) <= query.minutes
     /\ query.minutes < CloseOf(spans[k])}
\* The containing interval the status scan selects: the first in list order.
FirstContaining == spans[MinOf(Containing)]

\* The thresholds in force for the answered query.
ClosingWindow ==
  IF Has(query.options, "closingSoonMinutes") THEN query.options.closingSoonMinutes ELSE 90
OpeningWindow ==
  IF Has(query.options, "openingSoonMinutes") THEN query.options.openingSoonMinutes ELSE 60

\* Open times later today, and open times tomorrow.
LaterOpens ==
  {OpenOf(spans[k]) :
     k \in {j \in 1..Len(spans) : spans[j].day = query.day /\ OpenOf(spans[j]) > query.minutes}}
TomorrowOpens ==
  {OpenOf(spans[k]) : k \in {j \in 1..Len(spans) : spans[j].day = NextDay}}
\* The countdown to the next opening that the next-opening rule prescribes.
ExpectedUntilOpen ==
  IF LaterOpens # {} THEN Some(MinOf(LaterOpens) - query.minutes)
  ELSE IF TomorrowOpens # {} THEN Some(24 * 60 - query.minutes + MinOf(TomorrowOpens))
  ELSE None

(***************************************************************************)
(* C4                                                                      *)
(***************************************************************************)
\* The list with the elements at positions i and j exchanged.
Swap(s, i, j) ==
  [k \in 1..Len(s) |-> IF k = i THEN s[j] ELSE IF k = j THEN s[i] ELSE s[k]]
WellFormed == \A k \in 1..Len(spans) : OpenOf(spans[k]) < CloseOf(spans[k])
Overlap(a, b) == a.day = b.day /\ OpenOf(a) < CloseOf(b) /\ OpenOf(b) < CloseOf(a)
NoOverlap ==
  \A i, j \in 1..Len(spans) : i < j => ~Overlap(spans[i], spans[j])
\* The answer is the one every exchange of two intervals gives.  Every
\* permutation is a product of exchanges and the stored sets are closed under
\* them, so over all states this is the same answer for every permutation.
SameUnderExchange ==
  \A i, j \in 1..Len(spans) :
    i < j => getHoursStatus(Swap(spans, i, j), query.day, query.minutes, query.options) = result

\* C4 as stated: for every interval set whose intervals satisfy open < close,
\* overlapping ones included, getHoursStatus gives the same status and
\* countdowns for every order of the intervals.
C4_OrderIndependent == (Answered /\ WellFormed) => SameUnderExchange

\* C4 amended: for every interval set whose intervals satisfy open < close and
\* in which no two intervals of the same day overlap, getHoursStatus gives the
\* same status and countdowns for every order of the intervals.
C4_OrderIndependentNoOverlap == (Answered /\ WellFormed /\ NoOverlap) => SameUnderExchange

\* Two Sunday intervals stored latest first, asked before either opens.
C4_Witness ==
  /\ Answered /\ origin = "stored" /\ DefaultThresholds
  /\ spans = <<[day |-> 0, open |-> At2200, close |-> T2400],
               [day |-> 0, open |-> At0200, close |-> At2200]>>
  /\ query.day = 0 /\ query.minutes = 0
  /\ result = [status |-> "closed", minutesUntilOpen |-> 120]

(***************************************************************************)
(* C5                                                                      *)
(***************************************************************************)
C5_General ==
  (Answered /\ Containing # {} /\ ~IsAllDay(FirstContaining)) =>
    /\ DOMAIN result = {"status", "minutesUntilClose"}
    /\ result.status =
         IF result.minutesUntilClose <= ClosingWindow THEN "closing_soon" ELSE "open"
    /\ CloseOf(FirstContaining) < 24 * 60 =>
         result.minutesUntilClose = CloseOf(FirstContaining) - query.minutes
C5_Boundary ==
  (Scraped /\ Answered /\ raw = <<WeekdayLine>> /\ query.day = 3 /\ DefaultThresholds) =>
    /\ query.minutes = 1230 => result = [status |-> "closing_soon", minutesUntilClose |-> 90]
    /\ query.minutes = 1229 => result = [status |-> "open", minutesUntilClose |-> 91]
C5_Scenario ==
  (/\ Scraped /\ Answered /\ raw = <<WeekdayLine, WeekendLine>>
   /\ query.day = 3 /\ query.minutes = 1305 /\ DefaultThresholds) =>
    result = [status |-> "closing_soon", minutesUntilClose |-> 15]

\* C5: when the interval that contains the query minute is not the all-day
\* interval, the answer carries minutesUntilClose and is ClosingSoon exactly
\* when minutesUntilClose <= closingSoonMinutes, Open otherwise; with the
\* default 90, 90 minutes before close is ClosingSoon and 91 is Open; the
\* Mon-Fri / Sat-Sun lines asked at Wednesday 21:45 give ClosingSoon with 15.
C5_ClosingSoon == C5_General /\ C5_Boundary /\ C5_Scenario

\* Exactly 90 minutes before the Wednesday close, default thresholds.
C5_Witness ==
  /\ Scraped /\ Answered /\ raw = <<WeekdayLine, WeekendLine>>
  /\ query.day = 3 /\ query.minutes = 1230 /\ DefaultThresholds
  /\ result = [status |-> "closing_soon", minutesUntilClose |-> 90]

(***************************************************************************)
(* C6                                                                      *)
(***************************************************************************)
C6_General ==
  (Answered /\ Containing = {}) =>
    /\ result.status =
         IF ExpectedUntilOpen # None /\ ExpectedUntilOpen[1] <= OpeningWindow
           THEN "opening_soon" ELSE "closed"
    /\ DOMAIN result =
         IF ExpectedUntilOpen # None THEN {"status", "minutesUntilOpen"} ELSE {"status"}
C6_Boundary ==
  (Scraped /\ Answered /\ raw = <<WeekdayLine>> /\ query.day = 3 /\ DefaultThresholds) =>
    /\ query.minutes = 300 => result = [status |-> "opening_soon", minutesUntilOpen |-> 60]
    /\ query.minutes = 299 => result = [status |-> "closed", minutesUntilOpen |-> 61]

\* C6: when no interval contains the query minute, the answer is OpeningSoon
\* exactly when minutesUntilOpen is defined and <= openingSoonMinutes, and
\* otherwise Closed, carrying minutesUntilOpen when it is defined and no
\* countdown when it is not; with the default 60, 60 minutes before the next
\* opening is OpeningSoon and 61 is Closed.
C6_OpeningSoon == C6_General /\ C6_Boundary

\* Exactly 60 minutes before the Wednesday opening, default thresholds.
C6_Witness ==
  /\ Scraped /\ Answered /\ raw = <<WeekdayLine>>
  /\ query.day = 3 /\ query.minutes = 300 /\ DefaultThresholds
  /\ result = [status |-> "opening_soon", minutesUntilOpen |-> 60]

(***************************************************************************)
(* C7                                                                      *)
(***************************************************************************)
\* Positions of the intervals of the following day that start at 00:00.
Continuations ==
  {k \in 1..Len(spans) : spans[k].day = NextDay /\ OpenOf(spans[k]) = 0}

\* C7: when the interval that contains the query minute closes at 24:00 and
\* is not the all-day interval, minutesUntilClose is (1440 - minutes) +
\* close(c) for an interval c of the following day that starts at 00:00, and
\* exactly 1440 - minutes when the following day has no such interval; the
\* answer is ClosingSoon exactly when this merged value is within
\* closingSoonMinutes.
C7_ContinuationMerge ==
  (/\ Answered /\ Containing # {}
   /\ ~IsAllDay(FirstContaining)
   /\ CloseOf(FirstContaining) = 24 * 60) =>
    /\ Has(result, "minutesUntilClose")
    /\ IF Continuations # {}
         THEN \E k \in Continuations :
                result.minutesUntilClose = 24 * 60 - query.minutes + CloseOf(spans[k])
       ELSE result.minutesUntilClose = 24 * 60 - query.minutes
    /\ result.status =
         IF result.minutesUntilClose <= ClosingWindow THEN "closing_soon" ELSE "open"

\* Tuesday 23:30 on the Tuesday overnight line: 30 minutes to midnight merged
\* with the two hours of Wednesday is beyond the default window.
C7_Witness ==
  /\ Scraped /\ Answered /\ raw = <<TueOvernightLine>>
  /\ query.day = 2 /\ query.minutes = 1410 /\ DefaultThresholds
  /\ result = [status |-> "open", minutesUntilClose |-> 150]

(***************************************************************************)
(* C8                                                                      *)
(***************************************************************************)
\* C8: when no interval of the query day contains the query minute,
\* minutesUntilOpen is o - minutes for the smallest open time o later today;
\* failing that (1440 - minutes) + o' for the smallest open time o' of the
\* following day; and when the following day has no interval the answer is
\* Closed with no countdown, whatever the set holds on later days.
C8_NextOpening ==
  (Answered /\ Containing = {}) =>
    IF ExpectedUntilOpen # None
      THEN /\ Has(result, "minutesUntilOpen")
           /\ result.minutesUntilOpen = ExpectedUntilOpen[1]
    ELSE result = [status |-> "closed"]

\* Thursday on the Tuesday overnight line: the set is not empty, yet neither
\* Thursday nor Friday has an interval.
C8_Witness ==
  /\ Scraped /\ Answered /\ raw = <<TueOvernightLine>>
  /\ Len(spans) = 2 /\ query.day = 4
  /\ result = [status |-> "closed"]

(***************************************************************************)
(* C9                                                                      *)
(***************************************************************************)
\* Lines that yield no interval: empty, marked closed, without a time range,
\* with an hour that is no clock hour, without a weekday.
UnparseableLines == {<< >>, ClosedSundayLine, NoTimeLine, BadHourLine, NoDayLine}

\* C9: lines of which none is parseable give the empty interval set; on the
\* empty interval set getHoursStatus answers Closed with neither countdown,
\* at every (day, minute) and for every thresholds, and isOpenAt answers
\* false; every answer is a status or a boolean, never an error.
C9_EmptyIsClosed ==
  /\ (Scraped /\ \A k \in 1..Len(raw) : raw[k] \in UnparseableLines) => spans = << >>
  /\ (Answered /\ spans = << >>) => result = [status |-> "closed"]
  /\ (pc = "open" /\ spans = << >>) => result = [open |-> FALSE]

\* Two unparseable lines, asked with the widest thresholds.
C9_Witness ==
  /\ Scraped /\ Answered /\ raw = <<ClosedSundayLine, NoTimeLine>>
  /\ Has(query.options, "openingSoonMinutes") /\ query.options.openingSoonMinutes = 2000
  /\ result = [status |-> "closed"]

(***************************************************************************)
(* C10                                                                     *)
(***************************************************************************)
\* C10: "Daily 24 hours" parses to {d, 00:00, 24:00} for each of the seven
\* days and is answered Open with no minutesUntilClose at every (day, minute)
\* and for every closingSoonMinutes; whenever the containing interval the
\* scan selects is {d, 00:00, 24:00} the answer is Open with no countdown.
C10_AlwaysOpen ==
  /\ (Scraped /\ raw = <<DailyLine>>) =>
       /\ Len(spans) = 7
       /\ {spans[k] : k \in 1..Len(spans)} =
            {[day |-> d, open |-> T0000, close |-> T2400] : d \in 0..6}
  /\ (Scraped /\ raw = <<DailyLine>> /\ Answered) => result = [status |-> "open"]
  /\ (Answered /\ Containing # {} /\ IsAllDay(FirstContaining)) =>
       result = [status |-> "open"]

\* The daily line asked one minute before midnight with a closing-soon
\* window wider than a day.
C10_Witness ==
  /\ Scraped /\ Answered /\ raw = <<DailyLine>>
  /\ query.minutes = 1439
  /\ Has(query.options, "closingSoonMinutes") /\ query.options.closingSoonMinutes = 2000
  /\ result = [status |-> "open"]

(***************************************************************************)
(* C11                                                                     *)
(***************************************************************************)
\* Positions of the intervals of the query day that open, or close, at the
\* query minute.
OpeningNow ==
  {k \in 1..Len(spans) :
     /\ spans[k].day = query.day
     /\ OpenOf(spans[k]) = query.minutes
     /\ query.minutes < CloseOf(spans[k])}
ClosingNow ==
  {k \in 1..Len(spans) : spans[k].day = query.day /\ CloseOf(spans[k]) = query.minutes}

\* C11: the facility is open at minute m of day d exactly when some interval
\* {d, open, close} has open <= m < close: then and only then isOpenAt is
\* true and the status is Open or ClosingSoon; at m = open the status is Open
\* or ClosingSoon, and at m = close with no other interval containing m it
\* is Closed or OpeningSoon.
C11_HalfOpen ==
  /\ pc = "open" => (result.open <=> Containing # {})
  /\ Answered =>
       /\ (result.status \in {"open", "closing_soon"}) <=> (Containing # {})
       /\ (result.status \in {"closed", "opening_soon"}) <=> (Containing = {})
       /\ OpeningNow # {} => result.status \in {"open", "closing_soon"}
       /\ (ClosingNow # {} /\ Containing = {}) => result.status \in {"closed", "opening_soon"}

\* Sunday 02:00 on a set that opens at 02:00: the opening minute is inside.
C11_Witness ==
  /\ Answered /\ origin = "stored" /\ DefaultThresholds
  /\ spans = <<[day |-> 0, open |-> At0200, close |-> At2200]>>
  /\ query.day = 0 /\ query.minutes = 120
  /\ result = [status |-> "open", minutesUntilClose |-> 1200]

(***************************************************************************)
(* The line parser on its own: one line of text is handed to               *)
(* buildHoursSet.  The lines are the canonical renderings of intervals,    *)
(* lines whose weekday names stand before or after the first digit, and    *)
(* lines that carry the closed marker.                                     *)
(***************************************************************************)
\* Three-letter weekday names, Sunday first.
DayNames == <<<<"S", "u", "n">>, <<"M", "o", "n">>, <<"T", "u", "e">>, <<"W", "e", "d">>, <<"T", "h", "u">>, <<"F", "r", "i">>, <<"S", "a", "t">>>>
TwoDigits(n) == <<DigitChars[(n \div 10) + 1], DigitChars[(n % 10) + 1]>>
\* The clock time HH:MM of a minute of the day, 24:00 for 1440.
ClockOf(m) == TwoDigits(m \div 60) \o <<":">> \o TwoDigits(m % 60)

\* Minutes of the day at which a canonical interval may open or close.
CanonicalMinutes == {0, 1, 59, 60, 330, 540, 719, 720, 721, 779, 780, 1020, 1380, 1439, 1440}
CanonicalIntervals ==
  {c \in [day : 0..6, open : CanonicalMinutes, close : CanonicalMinutes] : c.open < c.close}
\* The interval as a span, and its rendering "<Ddd> <open> - <close>".
SpanOf(c) == [day |-> c.day, open |-> ClockOf(c.open), close |-> ClockOf(c.close)]
RenderOf(c) ==
  DayNames[c.day + 1] \o <<" ">> \o ClockOf(c.open) \o <<" ", "-", " ">> \o ClockOf(c.close)
CanonicalLines == {RenderOf(c) : c \in CanonicalIntervals}

\* Lines with weekday names before, after and on both sides of the first digit.
DayPlacementLines == {
  \* "9am - 5pm Mon-Fri"
  <<"9", "a", "m", " ", "-", " ", "5", "p", "m", " ", "M", "o", "n", "-", "F", "r", "i">>,
  \* "  9am - 5pm Mon"
  <<" ", " ", "9", "a", "m", " ", "-", " ", "5", "p", "m", " ", "M", "o", "n">>,
  \* "24 hours daily"
  <<"2", "4", " ", "h", "o", "u", "r", "s", " ", "d", "a", "i", "l", "y">>,
  \* "Mon 9am - 5pm Sat"
  <<"M", "o", "n", " ", "9", "a", "m", " ", "-", " ", "5", "p", "m", " ", "S", "a", "t">>,
  \* "Mon-Fri 9am - 5pm Sat-Sun"
  <<"M", "o", "n", "-", "F", "r", "i", " ", "9", "a", "m", " ", "-", " ", "5", "p", "m", " ", "S", "a", "t", "-", "S", "u", "n">>,
  \* "Wed, Fri 9am - 5pm"
  <<"W", "e", "d", ",", " ", "F", "r", "i", " ", "9", "a", "m", " ", "-", " ", "5", "p", "m">>,
  \* "Open 24 hours daily"
  <<"O", "p", "e", "n", " ", "2", "4", " ", "h", "o", "u", "r", "s", " ", "d", "a", "i", "l", "y">>,
  \* "Hours 9am - 5pm Tue"
  <<"H", "o", "u", "r", "s", " ", "9", "a", "m", " ", "-", " ", "5", "p", "m", " ", "T", "u", "e">>
}

\* Lines with the closed marker in several letter cases, and the same lines
\* without it.
MarkedLines == {
  \* "Sunday closed 9am - 5pm"
  <<"S", "u", "n", "d", "a", "y", " ", "c", "l", "o", "s", "e", "d", " ", "9", "a", "m", " ", "-", " ", "5", "p", "m">>,
  \* "Mon-Fri 9am - 5pm CLOSED holidays"
  <<"M", "o", "n", "-", "F", "r", "i", " ", "9", "a", "m", " ", "-", " ", "5", "p", "m", " ", "C", "L", "O", "S", "E", "D", " ", "h", "o", "l", "i", "d", "a", "y", "s">>,
  \* "Tue 9am - 5pm (temporarily Closed)"
  <<"T", "u", "e", " ", "9", "a", "m", " ", "-", " ", "5", "p", "m", " ", "(", "t", "e", "m", "p", "o", "r", "a", "r", "i", "l", "y", " ", "C", "l", "o", "s", "e", "d", ")">>,
  \* "Daily 24 hours cLoSeD"
  <<"D", "a", "i", "l", "y", " ", "2", "4", " ", "h", "o", "u", "r", "s", " ", "c", "L", "o", "S", "e", "D">>,
  \* "Sat Closed"
  <<"S", "a", "t", " ", "C", "l", "o", "s", "e", "d">>,
  \* "CLOSED"
  <<"C", "L", "O", "S", "E", "D">>
}
UnmarkedLines == {
  \* "Sunday 9am - 5pm"
  <<"S", "u", "n", "d", "a", "y", " ", "9", "a", "m", " ", "-", " ", "5", "p", "m">>,
  \* "Mon-Fri 9am - 5pm holidays"
  <<"M", "o", "n", "-", "F", "r", "i", " ", "9", "a", "m", " ", "-", " ", "5", "p", "m", " ", "h", "o", "l", "i", "d", "a", "y", "s">>,
  \* "Tue 9am - 5pm (temporarily )"
  <<"T", "u", "e", " ", "9", "a", "m", " ", "-", " ", "5", "p", "m", " ", "(", "t", "e", "m", "p", "o", "r", "a", "r", "i", "l", "y", " ", ")">>,
  \* "Daily 24 hours"
  <<"D", "a", "i", "l", "y", " ", "2", "4", " ", "h", "o", "u", "r", "s">>,
  \* "Sat close 9am - 5pm"
  <<"S", "a", "t", " ", "c", "l", "o", "s", "e", " ", "9", "a", "m", " ", "-", " ", "5", "p", "m">>
}

ProbeLines == CanonicalLines \cup DayPlacementLines \cup MarkedLines \cup UnmarkedLines

ScrapeLine == pc = "new" /\ \E line \in ProbeLines : buildHoursSet(<<line>>)

LineSpec == Init /\ [][ScrapeLine]_vars

(***************************************************************************)
(* C12                                                                     *)
(***************************************************************************)
\* C12: for every canonical interval {day, open, close} with open < close,
\* close = 24:00 and the all-day interval included, parsing the one line
\* "<three-letter weekday> <open> - <close>" returns exactly one interval,
\* equal to the original.
C12_RoundTrip ==
  \A c \in CanonicalIntervals :
    (Scraped /\ raw = <<RenderOf(c)>>) => spans = <<SpanOf(c)>>

\* The rendering of Saturday 23:00-24:00 has been parsed.
C12_Witness ==
  /\ Scraped /\ raw = <<<<"S", "a", "t", " ", "2", "3", ":", "0", "0", " ", "-", " ", "2", "4", ":", "0", "0">>>>
  /\ spans = <<[day |-> 6, open |-> <<"2", "3", ":", "0", "0">>, close |-> T2400]>>

(***************************************************************************)
(* C13                                                                     *)
(***************************************************************************)
\* The text of a line before its first digit (all of it when it has none).
DigitPositions(line) == {i \in 1..Len(line) : line[i] \in {DigitChars[d] : d \in 1..10}}
BeforeFirstDigit(line) ==
  IF DigitPositions(line) = {} THEN line
  ELSE SubSeq(line, 1, MinOf(DigitPositions(line)) - 1)
\* The line of a one-line set, as the parser sees it.
ProbedLine == trim(raw[1])
DaysOfSpans == [k \in 1..Len(spans) |-> spans[k].day]

\* C13: the days of a line's intervals are exactly the days the day-spec
\* parser finds in the text before the first digit of the line, so that
\* weekday names after the first digit contribute nothing and a line that
\* starts with a digit, such as "9am - 5pm Mon-Fri", yields no interval.
C13_DaysBeforeFirstDigit ==
  (Scraped /\ raw \in {<<line>> : line \in DayPlacementLines}) =>
    /\ DaysOfSpans = parseDaysPart(BeforeFirstDigit(ProbedLine))
    /\ DigitPositions(<<ProbedLine[1]>>) # {} => spans = << >>

\* C13 where it does hold: on the lines that do not start with a digit.
C13_DaysBeforeFirstDigitAfterText ==
  (/\ Scraped /\ raw \in {<<line>> : line \in DayPlacementLines}
   /\ DigitPositions(<<ProbedLine[1]>>) = {}) =>
    DaysOfSpans = parseDaysPart(BeforeFirstDigit(ProbedLine))

(***************************************************************************)
(* C14                                                                     *)
(***************************************************************************)
\* The line holds the letters c-l-o-s-e-d in a row, each in either case.
ClosedLetters == <<{"c", "C"}, {"l", "L"}, {"o", "O"}, {"s", "S"}, {"e", "E"}, {"d", "D"}>>
HasClosedMarker(line) ==
  \E i \in 1..Len(line) :
    \A k \in 1..6 : i + k - 1 <= Len(line) /\ line[i + k - 1] \in ClosedLetters[k]

\* C14: a line that contains "closed" in any letter case yields no interval,
\* also when it holds a valid day-spec and a valid time range: each marked
\* line yields nothing, while the same line without the marker yields
\* intervals.
C14_ClosedMarker ==
  /\ (Scraped /\ Len(raw) = 1 /\ HasClosedMarker(raw[1])) => spans = << >>
  /\ (Scraped /\ raw \in {<<line>> : line \in UnmarkedLines}) =>
       (~HasClosedMarker(raw[1]) /\ spans # << >>)

\* An upper-case marker after a valid weekday range and time range.
C14_Witness ==
  /\ Scraped /\ raw = <<<<"M", "o", "n", "-", "F", "r", "i", " ", "9", "a", "m", " ", "-", " ", "5", "p", "m", " ", "C", "L", "O", "S", "E", "D", " ", "h", "o", "l", "i", "d", "a", "y", "s">>>>
  /\ spans = << >>

(***************************************************************************)
(* C15                                                                     *)
(***************************************************************************)
\* Lines that are empty, have no time range, have a time that is no clock
\* time, or have no weekday.
DiscardedLines == {<< >>, NoTimeLine, BadHourLine, NoDayLine}
KeptLine(line) == line \notin DiscardedLines

\* C15: parsing a sequence of lines gives the parse of any prefix followed by
\* the parse of the rest, and gives the parse of the sequence with its empty,
\* time-less, bad-time and day-less lines taken out: such a line contributes
\* nothing and leaves the intervals of the other lines as they are.
C15_LocalDiscard ==
  (Scraped /\ pc = "ready") =>
    /\ \A k \in 0..Len(raw) :
         spans = parseHoursLines(SubSeq(raw, 1, k))
                   \o parseHoursLines(SubSeq(raw, k + 1, Len(raw)))
    /\ spans = parseHoursLines(SelectSeq(raw, KeptLine))

\* A line without a time range before the Tuesday overnight line.
C15_Witness ==
  /\ Scraped /\ pc = "ready"
  /\ raw = <<NoTimeLine, TueOvernightLine>>
  /\ spans = <<[day |-> 2, open |-> At2200, close |-> T2400],
               [day |-> 3, open |-> T0000, close |-> At0200]>>

(***************************************************************************)
(* The clock-time parser on its own: parseTimeTo24h applied to one text.   *)
(* The text is an hour, an optional ":MM" and an optional suffix, or one   *)
(* of a few texts outside that grammar.  A behaviour starts from the hour  *)
(* as written (or a malformed text) and its one step completes the text    *)
(* and parses it.                                                          *)
(***************************************************************************)
\* Largest hour and largest minute written into a time text.
MaxHour == 99
MaxMinute == 99

\* The decimal digits of a natural number.
RECURSIVE Decimal(_)
Decimal(n) ==
  IF n < 10 THEN <<DigitChars[n + 1]>>
  ELSE Decimal(n \div 10) \o <<DigitChars[(n % 10) + 1]>>
\* At least two digits, as a minute is written.
Padded(n) == IF n < 10 THEN <<"0">> \o Decimal(n) ELSE Decimal(n)

\* Ways of writing the hour: bare, and with a leading zero below ten.
HourForms(h) == IF h < 10 THEN {Decimal(h), Padded(h)} ELSE {Decimal(h)}
\* Ways of writing no suffix, am and pm.
SuffixForms == {
  [meridiem |-> "", text |-> << >>],
  [meridiem |-> "am", text |-> <<"a", "m">>],
  [meridiem |-> "pm", text |-> <<"p", "m">>],
  [meridiem |-> "am", text |-> <<" ", "a", ".", "m", ".">>],
  [meridiem |-> "pm", text |-> <<" ", "P", "M">>] }

\* A time text with the parts it was written from.
TimeQuery(h, hourText, minute, suffix) ==
  [kind |-> "time", hour |-> h, minute |-> minute, meridiem |-> suffix.meridiem,
   text |-> hourText
            \o (IF minute = None THEN << >> ELSE <<":">> \o Padded(minute[1]))
            \o suffix.text]
\* An hour as written, before the rest of the text is known.
HourQueries ==
  UNION {{[kind |-> "hour", hour |-> h, text |-> hourText] : hourText \in HourForms(h)} :
           h \in 0..MaxHour}
MinuteParts == {None} \cup {Some(m) : m \in 0..MaxMinute}

\* Texts outside the grammar.
MalformedTimes == {
  << >>, <<"n", "o", "o", "n">>, <<"a", "m">>, <<":", "3", "0">>, <<"9", ":", "5">>, <<"9", ":", "5", "p", "m">>, <<"1", "2", "3">>, <<"9", ":", "0", "0", "0">>, <<"9", ":", "3", "0", ":", "0", "0">>, <<"-", "1">>,
  <<"9", " ", "-", " ", "5">>, <<"9", "h", "3", "0">>, <<"9", ":", "3", "0", "x", "m">>, <<"p", "m", "9">>, <<"9", " ", "o", "'", "c", "l", "o", "c", "k">>, <<"1", "2", ":">> }
MalformedQueries == {[kind |-> "text", text |-> t] : t \in MalformedTimes}

\* The text starts with an hour, or is one of the malformed texts.
TimeInit ==
  /\ pc = "new"
  /\ origin = "none"
  /\ raw = << >>
  /\ spans = << >>
  /\ query \in HourQueries \cup MalformedQueries
  /\ result = NoResult
  /\ ClubInit
  /\ ScraperInit

\* parseTimeTo24h(q.text)
ParseTimeQuery(q) ==
  /\ pc = "new"
  /\ pc' = "time"
  /\ query' = q
  /\ result' = [time |-> parseTimeTo24h(q.text)]
  /\ UNCHANGED <<origin, raw, spans, clubVars, scraperVars>>

\* The hour completed by an optional minute and an optional suffix, parsed.
ParseGrammarTime ==
  /\ pc = "new" /\ query.kind = "hour"
  /\ \E minute \in MinuteParts, suffix \in SuffixForms :
       ParseTimeQuery(TimeQuery(query.hour, query.text, minute, suffix))
\* A malformed text, parsed.
ParseMalformedTime ==
  /\ pc = "new" /\ query.kind = "text"
  /\ ParseTimeQuery(query)

ParseTime == ParseGrammarTime \/ ParseMalformedTime

TimeSpec == TimeInit /\ [][ParseTime]_vars

(***************************************************************************)
(* C16                                                                     *)
(***************************************************************************)
Parsed == pc = "time"
\* HH and MM of a five-character text HH:MM.
DigitIndex(c) == (CHOOSE d \in 1..10 : DigitChars[d] = c) - 1
HourOf(t) == 10 * DigitIndex(t[1]) + DigitIndex(t[2])
MinuteOf(t) == 10 * DigitIndex(t[4]) + DigitIndex(t[5])
IsClockText(t) ==
  /\ Len(t) = 5
  /\ t[3] = ":"
  /\ \A i \in {1, 2, 4, 5} : t[i] \in {DigitChars[d] : d \in 1..10}

\* C16: a result of parseTimeTo24h that is not null is a five-character
\* text HH:MM with HH in 00..24 and MM in 00..59, between 00:00 and 24:00,
\* with HH = 24 only when MM = 00; a text outside the time grammar gives
\* null, which is a result like any other.
C16_ClockTimeShape ==
  Parsed =>
    /\ result.time # None =>
         /\ IsClockText(result.time[1])
         /\ HourOf(result.time[1]) <= 24
         /\ MinuteOf(result.time[1]) <= 59
         /\ 60 * HourOf(result.time[1]) + MinuteOf(result.time[1]) \in 0..(24 * 60)
         /\ HourOf(result.time[1]) = 24 => MinuteOf(result.time[1]) = 0
    /\ query.kind = "text" => result.time = None

\* "24" has been parsed to 24:00.
C16_Witness ==
  /\ Parsed /\ query.kind = "time"
  /\ query.text = <<"2", "4">>
  /\ result.time = Some(T2400)

(***************************************************************************)
(* C17                                                                     *)
(***************************************************************************)
\* The reference mapping: the hour after the suffix has been applied.
ReferenceHour(h, meridiem) ==
  IF meridiem = "am" THEN (IF h = 12 THEN 0 ELSE h)
  ELSE IF meridiem = "pm" THEN (IF h = 12 THEN 12 ELSE h + 12)
  ELSE h
ReferenceClock(hh, mm) ==
  IF mm > 59 THEN None
  ELSE IF hh = 24 /\ mm # 0 THEN None
  ELSE Some(ClockOf(60 * hh + mm))
ReferenceTime(h, minute, meridiem) ==
  IF meridiem # "" /\ (h < 1 \/ h > 12) THEN None
  ELSE IF meridiem = "" /\ h > 24 THEN None
  ELSE ReferenceClock(ReferenceHour(h, meridiem), IF minute = None THEN 0 ELSE minute[1])

\* C17: for every hour 0..99, optional minute 00..99 and optional am/pm
\* suffix parseTimeTo24h gives what the reference mapping gives: with a
\* suffix the hour must be 1..12, 12am is hour 0, 12pm is hour 12, other pm
\* hours add 12; without a suffix the hour must be 0..24 and is kept; a
\* minute above 59, and 24 with a minute other than 00, give null; no minute
\* part means 00.
C17_ReferenceMapping ==
  (Parsed /\ query.kind = "time") =>
    result.time = ReferenceTime(query.hour, query.minute, query.meridiem)

\* "12:30am" has been parsed to 00:30.
C17_Witness ==
  /\ Parsed /\ query.kind = "time"
  /\ query.text = <<"1", "2", ":", "3", "0", "a", "m">>
  /\ result.time = Some(<<"0", "0", ":", "3", "0">>)

(***************************************************************************)
(* The day-spec parser on its own: parseDaysPart applied to one phrase.    *)
(* The phrase is a weekday range "<start><separator><end>", a list of      *)
(* weekday names, or one of a table of phrases.  A behaviour starts from   *)
(* the first weekday name (or a table phrase) and its one step completes   *)
(* the phrase and parses it.                                               *)
(***************************************************************************)
\* The weekday names the program knows: the keys of DAY_MAP, with the
\* weekday each stands for, in lower case and capitalised.
Capitalised(token) ==
  <<UpperChars[CHOOSE i \in 1..26 : LowerChars[i] = token[1]]>> \o Tail(token)
WeekdayNames ==
  UNION {{[day |-> DAY_MAP[k][2], text |-> DAY_MAP[k][1]],
          [day |-> DAY_MAP[k][2], text |-> Capitalised(DAY_MAP[k][1])]} :
           k \in 1..Len(DAY_MAP)}
\* The ways a range is written between its two names.
RangeSeparators == {<<"-">>, <<" ", "-", " ">>, <<" ", "t", "o", " ">>, <<" ", EnDash, " ">>, <<EmDash>>}

\* Further weekday names of a list, each after ", ".
ListTails ==
  {<< >>} \cup {<<a>> : a \in 1..7} \cup {<<a, b>> : a, b \in 1..7}
RECURSIVE TailText(_)
TailText(names) ==
  IF names = << >> THEN << >>
  ELSE <<",", " ">> \o DayNames[Head(names)] \o TailText(Tail(names))
TailDays(names) == [k \in 1..Len(names) |-> names[k] - 1]

\* Phrases with the days each is to give under the resolution order.
PhraseTable == {
  [text |-> <<"D", "a", "i", "l", "y">>, days |-> <<0, 1, 2, 3, 4, 5, 6>>],
  [text |-> <<"O", "p", "e", "n", " ", "d", "a", "i", "l", "y">>, days |-> <<0, 1, 2, 3, 4, 5, 6>>],
  [text |-> <<"E", "v", "e", "r", "y", " ", "D", "a", "y">>, days |-> <<0, 1, 2, 3, 4, 5, 6>>],
  [text |-> <<"e", "v", "e", "r", "y", "d", "a", "y">>, days |-> <<0, 1, 2, 3, 4, 5, 6>>],
  [text |-> <<"D", "a", "i", "l", "y", ",", " ", "M", "o", "n", "-", "F", "r", "i">>, days |-> <<0, 1, 2, 3, 4, 5, 6>>],
  [text |-> <<"S", "a", "t", " ", "a", "n", "d", " ", "d", "a", "i", "l", "y">>, days |-> <<0, 1, 2, 3, 4, 5, 6>>],
  [text |-> <<"S", "a", "t", ",", " ", "M", "o", "n", "-", "F", "r", "i">>, days |-> <<1, 2, 3, 4, 5>>],
  [text |-> <<"M", "o", "n", "-", "W", "e", "d", ",", " ", "S", "a", "t">>, days |-> <<1, 2, 3>>],
  [text |-> <<"F", "r", "i", " ", "t", "o", " ", "M", "o", "n", " ", "a", "n", "d", " ", "W", "e", "d">>, days |-> <<5, 6, 0, 1>>],
  [text |-> <<"S", "a", "t", " ", "&", " ", "S", "u", "n">>, days |-> <<6, 0>>],
  [text |-> <<"T", "u", "e", "s", "/", "T", "h", "u", "r", "s">>, days |-> <<2, 4>>],
  [text |-> <<"F", "r", "i", "d", "a", "y", ",", " ", "M", "o", "n", "d", "a", "y", ",", " ", "F", "r", "i", "d", "a", "y">>, days |-> <<5, 1>>],
  [text |-> <<"S", "a", "t", "u", "r", "d", "a", "y", "s">>, days |-> <<6>>],
  [text |-> <<"W", "e", "d", "s">>, days |-> <<3>>],
  [text |-> <<" ", " ", "S", "u", "n", "d", "a", "y", " ", " ">>, days |-> <<0>>],
  [text |-> <<"E", "v", "e", "r", "y", " ", "w", "e", "e", "k", "d", "a", "y">>, days |-> << >>],
  [text |-> <<"H", "o", "l", "i", "d", "a", "y", "s">>, days |-> << >>],
  [text |-> <<"H", "o", "u", "r", "s">>, days |-> << >>],
  [text |-> <<" ", " ", " ">>, days |-> << >>],
  [text |-> << >>, days |-> << >>] }

DaysInit ==
  /\ pc = "new"
  /\ origin = "none"
  /\ raw = << >>
  /\ spans = << >>
  /\ query \in {[kind |-> "start", name |-> name] : name \in WeekdayNames}
               \cup {[kind |-> "phrase", text |-> p.text, days |-> p.days] : p \in PhraseTable}
  /\ result = NoResult
  /\ ClubInit
  /\ ScraperInit

\* parseDaysPart(q.text)
ParseDaysQuery(q) ==
  /\ pc = "new"
  /\ pc' = "days"
  /\ query' = q
  /\ result' = [days |-> parseDaysPart(q.text)]
  /\ UNCHANGED <<origin, raw, spans, clubVars, scraperVars>>

\* The first name completed to a range by a separator and a second name.
ParseRange ==
  /\ pc = "new" /\ query.kind = "start"
  /\ \E separator \in RangeSeparators, end \in WeekdayNames :
       ParseDaysQuery([kind |-> "range", start |-> query.name, end |-> end,
                       text |-> query.name.text \o separator \o end.text])
\* The first name, when three letters long, completed to a list of names.
ParseList ==
  /\ pc = "new" /\ query.kind = "start"
  /\ Len(query.name.text) = 3
  /\ \E names \in ListTails :
       ParseDaysQuery([kind |-> "list",
                       days |-> <<query.name.day>> \o TailDays(names),
                       text |-> query.name.text \o TailText(names)])
\* A phrase of the table.
ParsePhrase ==
  /\ pc = "new" /\ query.kind = "phrase"
  /\ ParseDaysQuery(query)

DaysNext == ParseRange \/ ParseList \/ ParsePhrase

DaysSpec == DaysInit /\ [][DaysNext]_vars

(***************************************************************************)
(* C18                                                                     *)
(***************************************************************************)
DaysParsed == pc = "days"
\* start, start + 1, ..., end modulo 7, walking forward.
ForwardWalk(start, end) ==
  [k \in 1..(((end - start + 7) % 7) + 1) |-> (start + k - 1) % 7]

C18_Walk ==
  (DaysParsed /\ query.kind = "range") =>
    /\ result.days = ForwardWalk(query.start.day, query.end.day)
    /\ Len(result.days) = ((query.end.day - query.start.day + 7) % 7) + 1
    /\ Len(result.days) <= 7
    /\ result.days[1] = query.start.day
    /\ result.days[Len(result.days)] = query.end.day
    /\ \A i, j \in 1..Len(result.days) : i # j => result.days[i] # result.days[j]
C18_Examples ==
  DaysParsed =>
    /\ query.text = <<"F", "r", "i", "-", "M", "o", "n">> => result.days = <<5, 6, 0, 1>>
    /\ query.text = <<"M", "o", "n", "-", "F", "r", "i">> => result.days = <<1, 2, 3, 4, 5>>
    /\ query.text = <<"T", "u", "e", " ", "t", "o", " ", "T", "u", "e">> => result.days = <<2>>

\* C18: for every start and end weekday, the range "<start> - <end>" (or
\* "to") gives start, start + 1, ..., end modulo 7: ((end - start) mod 7) + 1
\* distinct days, at most seven, the first start and the last end; "Fri-Mon"
\* gives [5, 6, 0, 1], "Mon-Fri" gives [1, 2, 3, 4, 5], and a range from a
\* day to itself gives that day alone.
C18_DayRangeExpansion == C18_Walk /\ C18_Examples

\* C18 for the ranges whose first name is not "weds".
C18_DayRangeExpansionMatchedStart ==
  (DaysParsed /\ query.kind = "range" /\ query.start.text \notin {<<"w", "e", "d", "s">>, <<"W", "e", "d", "s">>}) =>
    C18_Walk

(***************************************************************************)
(* C19                                                                     *)
(***************************************************************************)
\* Positions of the first occurrence of each element of a list.
FirstPositions(seq) == {k \in 1..Len(seq) : \A j \in 1..(k - 1) : seq[j] # seq[k]}
\* The n-th of a set of positions, counted from the left.
NthOf(positions, n) ==
  CHOOSE k \in positions : Cardinality({j \in positions : j <= k}) = n
\* The list without duplicates, in order of first occurrence.
FirstOccurrences(seq) ==
  [n \in 1..Cardinality(FirstPositions(seq)) |-> seq[NthOf(FirstPositions(seq), n)]]

RECURSIVE SplitAtColons(_)
ColonPositions(value) == {i \in 1..Len(value) : value[i] = ":"}
SplitAtColons(value) ==
  IF ColonPositions(value) = {} THEN <<value>>
  ELSE <<Slice(value, 1, Leftmost(ColonPositions(value)) - 1)>>
         \o SplitAtColons(Slice(value, Leftmost(ColonPositions(value)) + 1, Len(value)))

\* text.padStart(2, "0")
padStart(text) ==
  IF Len(text) = 0 THEN <<"0", "0">>
  ELSE IF Len(text) = 1 THEN <<"0">> \o text
  ELSE text

\* scrape-equinox.ts 334-338
ServiceTimeOfParts(parts) ==
  IF Len(parts) < 2 THEN None
  ELSE Some(padStart(parts[1]) \o <<":">> \o padStart(parts[2]))
\* scrape-equinox.ts normalizeServiceTime; value is None when undefined.
normalizeServiceTime(value) ==
  IF value = None THEN None
  ELSE IF value[1] = << >> THEN None
  ELSE ServiceTimeOfParts(SplitAtColons(value[1]))

\* scrape-equinox.ts 354-357: the line a range pushes, if any.
ServiceLine(day, start, end) ==
  IF start = None \/ end = None THEN << >>
  ELSE <<day \o <<" ">> \o start[1] \o <<" ", "-", " ">> \o end[1]>>
\* scrape-equinox.ts 351-358
RECURSIVE RangeLines(_, _)
RangeLines(day, ranges) ==
  IF ranges = << >> THEN << >>
  ELSE ServiceLine(day, normalizeServiceTime(Head(ranges).startTime),
                   normalizeServiceTime(Head(ranges).endTime))
         \o RangeLines(day, Tail(ranges))
\* scrape-equinox.ts 347-359
RECURSIVE MapLines(_)
MapLines(entries) ==
  IF entries = << >> THEN << >>
  ELSE RangeLines(Head(entries).day, Head(entries).ranges) \o MapLines(Tail(entries))
\* The lines handed to buildHoursSet; map is None when undefined.
ServiceLines(map) == IF map = None THEN << >> ELSE MapLines(map[1])

\* Boundary texts, each with the minute of the day it means (None when the
\* boundary is absent or empty).
ServiceBoundaries == {
  [text |-> None, at |-> None],
  [text |-> Some(<< >>), at |-> None],
  [text |-> Some(<<"9", ":", "0", "0">>), at |-> Some(540)],
  [text |-> Some(<<"1", "7", ":", "3", "0">>), at |-> Some(1050)],
  [text |-> Some(<<"2", "2", ":", "0", "0">>), at |-> Some(1320)],
  [text |-> Some(<<"0", ":", "0", "0">>), at |-> Some(0)],
  [text |-> Some(<<"0", "6", ":", "0", "5", ":", "0", "0">>), at |-> Some(365)],
  [text |-> Some(<<"2", "4", ":", "0", "0">>), at |-> Some(1440)] }
ServiceRanges == [start : ServiceBoundaries, end : ServiceBoundaries]
\* Ranges that accompany the first one.
CompanionRanges == {
  [start |-> [text |-> Some(<<"9", ":", "0", "0">>), at |-> Some(540)],
   end |-> [text |-> Some(<<"1", "7", ":", "3", "0">>), at |-> Some(1050)]],
  [start |-> [text |-> Some(<<"2", "2", ":", "0", "0">>), at |-> Some(1320)],
   end |-> [text |-> Some(<<"0", "6", ":", "0", "5", ":", "0", "0">>), at |-> Some(365)]],
  [start |-> [text |-> Some(<<"9", ":", "0", "0">>), at |-> Some(540)],
   end |-> [text |-> None, at |-> None]] }
\* Day keys.
ServiceDays == {<<"m", "o", "n", "d", "a", "y">>, <<"s", "a", "t", "u", "r", "d", "a", "y">>, <<"S", "u", "n", "d", "a", "y">>}

\* The maps made of a first range under a day key and at most one companion
\* range, under the same key or another, before or after.
DescribedEntry(day, ranges) == [day |-> day, ranges |-> ranges]
DescribedMaps(first) ==
  UNION {
    {<<DescribedEntry(day, <<first>>)>>}
    \cup {<<DescribedEntry(day, <<first, other>>)>> : other \in CompanionRanges}
    \cup {<<DescribedEntry(day, <<other, first>>)>> : other \in CompanionRanges}
    \cup UNION {
           {<<DescribedEntry(day, <<first>>), DescribedEntry(next, << >>)>>}
           \cup {<<DescribedEntry(day, <<first>>), DescribedEntry(next, <<other>>)>> :
                   other \in CompanionRanges}
           \cup {<<DescribedEntry(next, <<other>>), DescribedEntry(day, <<first>>)>> :
                   other \in CompanionRanges}
           : next \in ServiceDays \ {day}}
    : day \in ServiceDays}

\* The map as the scraper receives it: boundaries as texts only.
ReceivedRanges(ranges) ==
  [j \in 1..Len(ranges) |->
     [startTime |-> ranges[j].start.text, endTime |-> ranges[j].end.text]]
ReceivedMap(described) ==
  [k \in 1..Len(described) |->
     [day |-> described[k].day, ranges |-> ReceivedRanges(described[k].ranges)]]

MapInit ==
  /\ pc = "new"
  /\ origin = "none"
  /\ raw = << >>
  /\ spans = << >>
  /\ query \in {[kind |-> "range", range |-> r] : r \in ServiceRanges}
               \cup {[kind |-> "absent"]}
  /\ result = NoResult
  /\ ClubInit
  /\ ScraperInit

\* scrape-equinox.ts parseServiceHoursMap: buildHoursSet(lines)
parseServiceHoursMap(map) ==
  /\ pc = "new"
  /\ pc' = "ready"
  /\ origin' = "service"
  /\ raw' = ServiceLines(map)
  /\ spans' = parseHoursLines(ServiceLines(map))
  /\ UNCHANGED <<result, clubVars, scraperVars>>

\* A map around the first range is ingested.
IngestMap ==
  /\ pc = "new" /\ query.kind = "range"
  /\ \E described \in DescribedMaps(query.range) :
       /\ query' = [kind |-> "map", entries |-> described]
       /\ parseServiceHoursMap(Some(ReceivedMap(described)))
\* No map at all is ingested.
IngestAbsent ==
  /\ pc = "new" /\ query.kind = "absent"
  /\ query' = [kind |-> "map", entries |-> << >>]
  /\ parseServiceHoursMap(None)

MapNext == IngestMap \/ IngestAbsent

MapSpec == MapInit /\ [][MapNext]_vars

(***************************************************************************)
(* C20                                                                     *)
(***************************************************************************)
Ingested == origin = "service"
\* The lines "<day> <HH:MM> - <HH:MM>" of the pairs that have both
\* boundaries, in map order, written from the minutes the boundaries mean.
CompleteRange(range) == range.start.at # None /\ range.end.at # None
ReferenceLine(day, range) ==
  day \o <<" ">> \o ClockOf(range.start.at[1]) \o <<" ", "-", " ">> \o ClockOf(range.end.at[1])
RECURSIVE ReferenceRangeLines(_, _)
ReferenceRangeLines(day, ranges) ==
  IF ranges = << >> THEN << >>
  ELSE (IF CompleteRange(Head(ranges)) THEN <<ReferenceLine(day, Head(ranges))>> ELSE << >>)
         \o ReferenceRangeLines(day, Tail(ranges))
RECURSIVE ReferenceLines(_)
ReferenceLines(entries) ==
  IF entries = << >> THEN << >>
  ELSE ReferenceRangeLines(Head(entries).day, Head(entries).ranges)
         \o ReferenceLines(Tail(entries))

\* The intervals of a map are those of the reference lines of its complete
\* pairs: an incomplete pair adds nothing and takes nothing away.
C20_SameAsLines ==
  Ingested =>
    /\ raw = ReferenceLines(query.entries)
    /\ spans = parseHoursLines(ReferenceLines(query.entries))

\* C20: the intervals parseServiceHoursMap produces are those parseHoursLines
\* gives for the lines "<day> <HH:MM> - <HH:MM>" of exactly the pairs that
\* have both boundaries, in map order; a pair missing a boundary contributes
\* nothing and does not keep other pairs from contributing; and every
\* resulting interval has open < close.
C20_ServiceMapIngestion ==
  /\ C20_SameAsLines
  /\ Ingested => \A k \in 1..Len(spans) : OpenOf(spans[k]) < CloseOf(spans[k])

(***************************************************************************)
(* Service selection: time.ts slugifyAmenity, buildAmenityKeys,            *)
(* getHoursSetForClub.  A club's hours are a primary hours set and a       *)
(* record of service hours sets keyed by text; the record is a plain       *)
(* object, so a key it does not own is looked up on Object.prototype.      *)
(***************************************************************************)
IsSlugChar(c) == (\E i \in 1..26 : LowerChars[i] = c) \/ IsDigit(c)

\* .replace(/[^a-z0-9]+/g, "_"): each run of other characters becomes one "_".
RECURSIVE AfterRun(_)
AfterRun(s) ==
  IF s = << >> \/ IsSlugChar(Head(s)) THEN s ELSE AfterRun(Tail(s))
RECURSIVE ReplaceRuns(_)
ReplaceRuns(s) ==
  IF s = << >> THEN << >>
  ELSE IF IsSlugChar(Head(s)) THEN <<Head(s)>> \o ReplaceRuns(Tail(s))
  ELSE <<"_">> \o ReplaceRuns(AfterRun(s))

\* .replace(/^_+|_+$/g, "")
RECURSIVE StripLeading(_)
StripLeading(s) ==
  IF s # << >> /\ Head(s) = "_" THEN StripLeading(Tail(s)) ELSE s
RECURSIVE StripTrailing(_)
StripTrailing(s) ==
  IF s # << >> /\ s[Len(s)] = "_" THEN StripTrailing(SubSeq(s, 1, Len(s) - 1)) ELSE s

slugifyAmenity(value) == StripTrailing(StripLeading(ReplaceRuns(toLowerCase(value))))

\* The keys in the order they are added to the Set (time.ts 71-80).
AddedKeys(normalized, slug) ==
  (IF includes(normalized, <<"p", "o", "o", "l">>) THEN <<<<"p", "o", "o", "l">>>> ELSE << >>)
    \o (IF includes(normalized, <<"s", "p", "a">>) THEN <<<<"s", "p", "a">>>> ELSE << >>)
    \o (IF includes(normalized, <<"k", "i", "d", "s">>) THEN <<<<"k", "i", "d", "s", "_", "c", "l", "u", "b">>>> ELSE << >>)
    \o <<slug>>

buildAmenityKeys(amenity) == Unique(AddedKeys(toLowerCase(amenity), slugifyAmenity(amenity)))

\* Property names every plain object inherits from Object.prototype.
ObjectPrototypeKeys == {
  <<"c", "o", "n", "s", "t", "r", "u", "c", "t", "o", "r">>, <<"h", "a", "s", "O", "w", "n", "P", "r", "o", "p", "e", "r", "t", "y">>, <<"i", "s", "P", "r", "o", "t", "o", "t", "y", "p", "e", "O", "f">>, <<"p", "r", "o", "p", "e", "r", "t", "y", "I", "s", "E", "n", "u", "m", "e", "r", "a", "b", "l", "e">>,
  <<"t", "o", "L", "o", "c", "a", "l", "e", "S", "t", "r", "i", "n", "g">>, <<"t", "o", "S", "t", "r", "i", "n", "g">>, <<"v", "a", "l", "u", "e", "O", "f">>, <<"_", "_", "p", "r", "o", "t", "o", "_", "_">>,
  <<"_", "_", "d", "e", "f", "i", "n", "e", "G", "e", "t", "t", "e", "r", "_", "_">>, <<"_", "_", "d", "e", "f", "i", "n", "e", "S", "e", "t", "t", "e", "r", "_", "_">>, <<"_", "_", "l", "o", "o", "k", "u", "p", "G", "e", "t", "t", "e", "r", "_", "_">>, <<"_", "_", "l", "o", "o", "k", "u", "p", "S", "e", "t", "t", "e", "r", "_", "_">> }

\* club.hours.amenities[key]: the own property, else the inherited one (a
\* truthy value that has no `spans`), else undefined.
PropertyOf(amenities, key) ==
  IF key \in DOMAIN amenities THEN [kind |-> "own", value |-> amenities[key]]
  ELSE IF key \in ObjectPrototypeKeys THEN [kind |-> "inherited"]
  ELSE [kind |-> "undefined"]

\* The loop of time.ts 108-115.  `amenityHours && amenityHours.spans.length`
\* reads `.length` of undefined when amenityHours is an inherited property,
\* which throws a TypeError.
RECURSIVE FirstServiceSet(_, _)
FirstServiceSet(hoursOfClub, keys) ==
  IF keys = << >> THEN [kind |-> "set", set |-> hoursOfClub.club]
  ELSE IF PropertyOf(hoursOfClub.amenities, Head(keys)).kind = "inherited"
    THEN [kind |-> "TypeError"]
  ELSE IF /\ PropertyOf(hoursOfClub.amenities, Head(keys)).kind = "own"
          /\ Len(PropertyOf(hoursOfClub.amenities, Head(keys)).value.spans) # 0
    THEN [kind |-> "set", set |-> PropertyOf(hoursOfClub.amenities, Head(keys)).value]
  ELSE FirstServiceSet(hoursOfClub, Tail(keys))

\* amenity is absent (None) or a text; !amenity holds for both absent and "".
getHoursSetForClub(hoursOfClub, amenity) ==
  IF amenity = None \/ amenity[1] = << >> THEN [kind |-> "set", set |-> hoursOfClub.club]
  ELSE FirstServiceSet(hoursOfClub, buildAmenityKeys(amenity[1]))

(***************************************************************************)
(* Service selection on its own: a club's hours are drawn, and one call of *)
(* getHoursSetForClub selects from them.                                   *)
(***************************************************************************)
\* Keys a club's record of service hours may own (the scraper keys it by
\* slugifyAmenity of the service label, and by "spa" and "kids_club").
ServiceKeys == <<<<"p", "o", "o", "l">>, <<"s", "p", "a">>, <<"k", "i", "d", "s", "_", "c", "l", "u", "b">>, <<"s", "a", "u", "n", "a">>, <<"s", "t", "e", "a", "m", "_", "r", "o", "o", "m">>>>
\* The hours set stored under the k-th key: empty, or one interval whose
\* day tells the sets apart; the primary set uses day 0.
At0600 == ClockOf(360)
ServiceSet(k) == [spans |-> <<[day |-> k, open |-> At0600, close |-> At2200]>>]
EmptySet == [spans |-> << >>]
PrimarySets == {EmptySet, ServiceSet(0)}
\* For each key: not owned, owned with no interval, owned with an interval.
KeyStates == [1..Len(ServiceKeys) -> {"absent", "empty", "set"}]
AmenitiesOf(states) ==
  [key \in {ServiceKeys[k] : k \in {j \in 1..Len(ServiceKeys) : states[j] # "absent"}} |->
     LET k == CHOOSE j \in 1..Len(ServiceKeys) : ServiceKeys[j] = key
     IN  IF states[k] = "set" THEN ServiceSet(k) ELSE EmptySet]
ClubHoursChoices ==
  {[club |-> primary, amenities |-> AmenitiesOf(states)] :
     primary \in PrimarySets, states \in KeyStates}

\* Amenity labels of a query, each with the candidate keys it stands for
\* (pool, spa, kids_club as the label mentions them, then its slug).
AmenityLabels == {
  [text |-> None, keys |-> << >>],
  [text |-> Some(<<>>), keys |-> << >>],
  [text |-> Some(<<"P", "o", "o", "l">>), keys |-> <<<<"p", "o", "o", "l">>>>],
  [text |-> Some(<<"s", "p", "a">>), keys |-> <<<<"s", "p", "a">>>>],
  [text |-> Some(<<"K", "i", "d", "s", " ", "C", "l", "u", "b">>), keys |-> <<<<"k", "i", "d", "s", "_", "c", "l", "u", "b">>>>],
  [text |-> Some(<<"P", "o", "o", "l", " ", "&", " ", "S", "p", "a">>), keys |-> <<<<"p", "o", "o", "l">>, <<"s", "p", "a">>, <<"p", "o", "o", "l", "_", "s", "p", "a">>>>],
  [text |-> Some(<<"K", "i", "d", "s", "'", " ", "P", "o", "o", "l">>), keys |-> <<<<"p", "o", "o", "l">>, <<"k", "i", "d", "s", "_", "c", "l", "u", "b">>, <<"k", "i", "d", "s", "_", "p", "o", "o", "l">>>>],
  [text |-> Some(<<"D", "a", "y", " ", "S", "p", "a", " ", "/", " ", "K", "i", "d", "s">>), keys |-> <<<<"s", "p", "a">>, <<"k", "i", "d", "s", "_", "c", "l", "u", "b">>, <<"d", "a", "y", "_", "s", "p", "a", "_", "k", "i", "d", "s">>>>],
  [text |-> Some(<<"S", "a", "u", "n", "a">>), keys |-> <<<<"s", "a", "u", "n", "a">>>>],
  [text |-> Some(<<" ", "S", "t", "e", "a", "m", " ", " ", "R", "o", "o", "m", " ">>), keys |-> <<<<"s", "t", "e", "a", "m", "_", "r", "o", "o", "m">>>>],
  [text |-> Some(<<"Y", "o", "g", "a">>), keys |-> <<<<"y", "o", "g", "a">>>>],
  [text |-> Some(<<" ">>), keys |-> <<<<>>>>],
  [text |-> Some(<<"C", "o", "n", "s", "t", "r", "u", "c", "t", "o", "r">>), keys |-> <<<<"c", "o", "n", "s", "t", "r", "u", "c", "t", "o", "r">>>>] }

ServiceInit ==
  /\ pc = "new"
  /\ origin = "none"
  /\ raw = << >>
  /\ spans = << >>
  /\ query = NoQuery
  /\ result = NoResult
  /\ hours \in ClubHoursChoices
  /\ lastIndex = 0
  /\ ScraperInit

\* One call getHoursSetForClub(club, amenity).
SelectHours(label) ==
  /\ pc = "new"
  /\ pc' = "selected"
  /\ query' = [kind |-> "amenity", label |-> label]
  /\ result' = getHoursSetForClub(hours, label.text)
  /\ UNCHANGED <<origin, raw, spans, clubVars, scraperVars>>

SelectService == pc = "new" /\ \E label \in AmenityLabels : SelectHours(label)

ServiceSpec == ServiceInit /\ [][SelectService]_vars

(***************************************************************************)
(* C21                                                                     *)
(***************************************************************************)
Selected == pc = "selected"
\* Positions of the label's candidate keys that the club owns with at least
\* one interval.
UsableCandidates ==
  {i \in 1..Len(query.label.keys) :
     /\ query.label.keys[i] \in DOMAIN hours.amenities
     /\ hours.amenities[query.label.keys[i]].spans # << >>}
ExpectedSet ==
  IF UsableCandidates = {} THEN hours.club
  ELSE hours.amenities[query.label.keys[MinOf(UsableCandidates)]]
InheritedCandidate ==
  \E i \in 1..Len(query.label.keys) : query.label.keys[i] \in ObjectPrototypeKeys

\* The selection is the first usable candidate's set, else the primary set,
\* for every label none of whose candidate keys is a property name that
\* plain objects inherit.
C21_ServiceFallbackOwnKeys ==
  (Selected /\ ~InheritedCandidate) =>
    /\ result = [kind |-> "set", set |-> ExpectedSet]
    /\ result.set = hours.club \/ result.set.spans # << >>

\* C21: getHoursSetForClub returns the primary set when the label is absent
\* or empty, matches no key of the club's service hours, or matches only
\* keys with empty sets; otherwise the set of the first candidate key
\* (pool, spa, kids_club, slug of the label) that has an interval; so the
\* returned set is always the primary set or a non-empty service set.
C21_ServiceFallback ==
  Selected =>
    /\ result = [kind |-> "set", set |-> ExpectedSet]
    /\ result.set = hours.club \/ result.set.spans # << >>

(***************************************************************************)
(* Time-zone labels: time.ts normalizeTimeZone.  A label is drawn as a     *)
(* name with white space written before and after it, normalized, and the  *)
(* result is normalized once more.                                         *)
(***************************************************************************)
NYC_TIMEZONE == <<"A", "m", "e", "r", "i", "c", "a", "/", "N", "e", "w", "_", "Y", "o", "r", "k">>
ZoneAliases == {<<"E", "a", "s", "t", "e", "r", "n", " ", "S", "t", "a", "n", "d", "a", "r", "d", " ", "T", "i", "m", "e">>, <<"E", "a", "s", "t", "e", "r", "n", " ", "D", "a", "y", "l", "i", "g", "h", "t", " ", "T", "i", "m", "e">>, <<"E", "S", "T">>, <<"E", "D", "T">>, <<"U", "S", "/", "E", "a", "s", "t", "e", "r", "n">>}

\* ZoneOfTrimmed that knows no alias.
ZoneOfTrimmedNoAlias(trimmed) ==
  IF trimmed = << >> THEN NYC_TIMEZONE ELSE trimmed

\* time.ts 12-28
ZoneOfTrimmed(trimmed) ==
  IF trimmed = << >> THEN NYC_TIMEZONE
  ELSE IF trimmed \in ZoneAliases THEN NYC_TIMEZONE
  ELSE trimmed

\* value is absent (None) or a text; !value holds for both absent and "".
normalizeTimeZone(value) ==
  IF value = None \/ value[1] = << >> THEN NYC_TIMEZONE
  ELSE ZoneOfTrimmed(trim(value[1]))

\* Names of a club's time zone as page data may give them; none begins or
\* ends with white space.
ZoneNames == ZoneAliases \cup {
  <<>>, NYC_TIMEZONE, <<"E", "u", "r", "o", "p", "e", "/", "P", "a", "r", "i", "s">>, <<"A", "m", "e", "r", "i", "c", "a", "/", "L", "o", "s", "_", "A", "n", "g", "e", "l", "e", "s">>, <<"U", "T", "C">>, <<"e", "s", "t">>,
  <<"E", "a", "s", "t", "e", "r", "n", " ", " ", "S", "t", "a", "n", "d", "a", "r", "d", " ", "T", "i", "m", "e">>, <<"U", "S", "/", "P", "a", "c", "i", "f", "i", "c">>, <<"E", "a", "s", "t", "e", "r", "n", " ", "T", "i", "m", "e">> }
PadsBefore == {<<>>, <<" ">>, <<"\t">>, <<" ", " ">>}
PadsAfter == {<<>>, <<" ">>, <<" ", "\n">>}
ZoneLabel(before, name, after) ==
  [kind |-> "zone", name |-> name, before |-> before, after |-> after,
   text |-> Some(before \o name \o after)]
ZoneLabels ==
  {[kind |-> "zone", name |-> << >>, before |-> << >>, after |-> << >>, text |-> None]}
    \cup {ZoneLabel(before, name, after) :
            before \in PadsBefore, name \in ZoneNames, after \in PadsAfter}

ZoneInit ==
  /\ pc = "new"
  /\ origin = "none"
  /\ raw = << >>
  /\ spans = << >>
  /\ query = NoQuery
  /\ result = NoResult
  /\ ClubInit
  /\ ScraperInit

\* normalizeTimeZone(club.timezone)
NormalizeLabel(label) ==
  /\ pc = "new"
  /\ pc' = "zone"
  /\ query' = label
  /\ result' = [zone |-> normalizeTimeZone(label.text)]
  /\ UNCHANGED <<origin, raw, spans, clubVars, scraperVars>>

NormalizeZone == pc = "new" /\ \E label \in ZoneLabels : NormalizeLabel(label)

\* normalizeTimeZone applied to its own result.
NormalizeAgain ==
  /\ pc = "zone"
  /\ pc' = "zone again"
  /\ query' = [query EXCEPT !.text = Some(result.zone)]
  /\ result' = [zone |-> normalizeTimeZone(Some(result.zone)), first |-> result.zone]
  /\ UNCHANGED <<origin, raw, spans, clubVars, scraperVars>>

ZoneNext == NormalizeZone \/ NormalizeAgain

ZoneSpec == ZoneInit /\ [][ZoneNext]_vars

(***************************************************************************)
(* C22                                                                     *)
(***************************************************************************)
Normalized == pc = "zone"
NormalizedAgain == pc = "zone again"
MeansNewYork(label) == label = None \/ label[1] = << >> \/ label[1] \in ZoneAliases
Idempotent == NormalizedAgain => result.zone = result.first

\* C22: normalizeTimeZone maps the known aliases and empty or absent input
\* to "America/New_York", returns every other non-empty string unchanged,
\* character for character, also when it is made of or padded with white
\* space, and is idempotent.
C22_PassThroughUnchanged ==
  /\ Normalized =>
       result.zone = IF MeansNewYork(query.text) THEN NYC_TIMEZONE ELSE query.text[1]
  /\ Idempotent

\* C22 as amended: the label is taken without the white space around it;
\* what is left is mapped to "America/New_York" when it is empty or a known
\* alias and returned as it is otherwise; absent input gives
\* "America/New_York"; the function is idempotent.
C22_PassThroughTrimmed ==
  /\ Normalized =>
       result.zone = IF query.text = None \/ query.name \in ZoneAliases \cup {<< >>}
                       THEN NYC_TIMEZONE ELSE query.name
  /\ Idempotent

\* A padded label that is no alias has been normalized to its name, and a
\* padded alias to New York.
C22_Witness ==
  /\ NormalizedAgain
  /\ query.before # << >> /\ query.after # << >>
  /\ query.name \notin ZoneAliases \cup {<< >>, NYC_TIMEZONE}
  /\ result.first = query.name

(***************************************************************************)
(* The readers and the arrays they touch: hours.ts isOpenAt,               *)
(* getSpansForDate, getHoursStatus and time.ts getHoursSetForClub.  A call *)
(* works on a list of arrays: the first is the `spans` array it was        *)
(* given, and filter and map append the array they create, which is the    *)
(* array the next call in the chain works on.  sort reorders the array it  *)
(* is called on, in place.                                                 *)
(***************************************************************************)
Newest(arrays) == arrays[Len(arrays)]

\* filter that creates no array: it leaves its result in the array it was
\* called on.
FilterDayInPlace(arrays, source, day) ==
  [arrays EXCEPT ![source] = SpansOnDay(arrays[source], day)]

\* spans.filter((span) => span.day === day)
FilterDay(arrays, source, day) == Append(arrays, SpansOnDay(arrays[source], day))

\* Array.prototype.sort((a, b) => toMinutes(a.open) - toMinutes(b.open)):
\* stable, ascending by opening minute.
InsertByOpen(head, rest) ==
  SelectSeq(rest, LAMBDA span : toMinutes(span.open) < toMinutes(head.open))
    \o <<head>>
    \o SelectSeq(rest, LAMBDA span : toMinutes(span.open) >= toMinutes(head.open))
RECURSIVE SortedByOpen(_)
SortedByOpen(spanList) ==
  IF spanList = << >> THEN << >>
  ELSE InsertByOpen(Head(spanList), SortedByOpen(Tail(spanList)))
\* .sort(...) on the newest array.
SortByOpen(arrays) == [arrays EXCEPT ![Len(arrays)] = SortedByOpen(@)]

\* hours.ts 218-230; the newest array is the one returned.
getSpansForDate(arrays, day) ==
  IF Len(arrays[1]) = 0 THEN Append(arrays, << >>)
  ELSE SortByOpen(FilterDay(arrays, 1, day))

\* daySpans.map((span) => toMinutes(span.open))
MapOpenMinutes(arrays) == Append(arrays, OpenMinutes(Newest(arrays)))
\* .filter((openMinutes) => openMinutes > minutes)
FilterLater(arrays, minutes) ==
  Append(arrays, SelectSeq(Newest(arrays), LAMBDA openMinutes : openMinutes > minutes))
\* .sort((a, b) => a - b) on the newest array.
SortNumbers(arrays) == [arrays EXCEPT ![Len(arrays)] = SortAscending(@)]

\* hours.ts 276-278: the arrays of the branch that found an open span.
ArraysWhenOpen(arrays, openSpan, day) ==
  IF ~OpenAllDay(openSpan) /\ openSpan.close = T2400
    THEN FilterDay(arrays, 1, (day + 1) % 7)
  ELSE arrays
\* hours.ts 299-303: the next day's spans and their opening minutes.
NextDayArrays(arrays) ==
  IF Len(Newest(arrays)) # 0 THEN MapOpenMinutes(arrays) ELSE arrays
\* hours.ts 290-305: the arrays of the branch that found none.
ArraysWhenClosed(arrays, day) ==
  IF Newest(arrays) = << >> THEN NextDayArrays(FilterDay(arrays, 1, (day + 1) % 7))
  ELSE arrays
\* hours.ts 258-305
StatusArraysOf(arrays, openSpan, day, minutes) ==
  IF openSpan # None THEN ArraysWhenOpen(arrays, openSpan[1], day)
  ELSE ArraysWhenClosed(SortNumbers(FilterLater(MapOpenMinutes(arrays), minutes)), day)
StatusArraysOnDay(arrays, day, minutes) ==
  StatusArraysOf(arrays, FindOpenSpan(Newest(arrays), minutes), day, minutes)
\* The arrays getHoursStatus leaves behind.
StatusArrays(arrays, day, minutes) ==
  IF Len(arrays[1]) = 0 THEN arrays
  ELSE StatusArraysOnDay(FilterDay(arrays, 1, day), day, minutes)

(***************************************************************************)
(* The readers as a state machine: a club's hours are loaded once and then *)
(* read by any sequence of calls, each on the primary set or on a service  *)
(* set.  After a call the club's array is the first array of the call.     *)
(***************************************************************************)
\* Span lists as they are stored: in line order, not in time order.
ClubSpansUnsorted ==
  <<SpanOf([day |-> 1, open |-> 1020, close |-> 1380]),
    SpanOf([day |-> 1, open |-> 330, close |-> 540]),
    SpanOf([day |-> 2, open |-> 330, close |-> 540])>>
PoolSpansOvernight ==
  <<SpanOf([day |-> 1, open |-> 1380, close |-> 1440]),
    SpanOf([day |-> 2, open |-> 0, close |-> 60]),
    SpanOf([day |-> 1, open |-> 540, close |-> 720])>>
SpaSpansUnsorted ==
  <<SpanOf([day |-> 2, open |-> 720, close |-> 780]),
    SpanOf([day |-> 2, open |-> 330, close |-> 540]),
    SpanOf([day |-> 2, open |-> 540, close |-> 720])>>
AllDaySpans ==
  <<SpanOf([day |-> 1, open |-> 0, close |-> 1440]),
    SpanOf([day |-> 2, open |-> 0, close |-> 1440])>>
ReaderHours == {
  [club |-> [spans |-> ClubSpansUnsorted],
   amenities |-> (<<"p", "o", "o", "l">> :> [spans |-> PoolSpansOvernight])],
  [club |-> [spans |-> << >>],
   amenities |-> (<<"s", "p", "a">> :> [spans |-> SpaSpansUnsorted])],
  [club |-> [spans |-> AllDaySpans],
   amenities |-> (<<"p", "o", "o", "l">> :> [spans |-> << >>])] }
ReaderMinutes == {0, 330, 600, 1380}

\* A place in the club's hours: None for the primary set, else a key.
Places == {None} \cup {Some(key) : key \in DOMAIN hours.amenities}
SetAt(hoursOfClub, place) ==
  IF place = None THEN hoursOfClub.club ELSE hoursOfClub.amenities[place[1]]
\* The club's hours with the array at the place as the call left it.
HoursWith(hoursOfClub, place, array) ==
  IF place = None THEN [hoursOfClub EXCEPT !.club.spans = array]
  ELSE [hoursOfClub EXCEPT !.amenities[place[1]].spans = array]

ReaderInit ==
  /\ pc = "ready"
  /\ origin = "stored"
  /\ raw = << >>
  /\ spans = << >>
  /\ query = NoQuery
  /\ result = NoResult
  /\ hours \in ReaderHours
  /\ lastIndex = 0
  /\ ScraperInit

Reading == pc \in {"ready", "read"}

\* getSpansForDate(set.spans, date, timeZone)
SpansForDateCall(place, day, arrays) ==
  /\ pc' = "read"
  /\ query' = [kind |-> "spansForDate", place |-> place, day |-> day]
  /\ result' = [spans |-> Newest(arrays)]
  /\ hours' = HoursWith(hours, place, arrays[1])
  /\ UNCHANGED <<origin, raw, spans, lastIndex, scraperVars>>
ReadSpansForDate ==
  /\ Reading
  /\ \E place \in Places, day \in QueryDays :
       SpansForDateCall(place, day, getSpansForDate(<<SetAt(hours, place).spans>>, day))

\* getHoursStatus(set.spans, date, timeZone)
StatusCall(place, day, minutes, arrays) ==
  /\ pc' = "read"
  /\ query' = [kind |-> "status", place |-> place, day |-> day, minutes |-> minutes]
  /\ result' = getHoursStatus(SetAt(hours, place).spans, day, minutes, << >>)
  /\ hours' = HoursWith(hours, place, arrays[1])
  /\ UNCHANGED <<origin, raw, spans, lastIndex, scraperVars>>
ReadStatus ==
  /\ Reading
  /\ \E place \in Places, day \in QueryDays, minutes \in ReaderMinutes :
       StatusCall(place, day, minutes,
                  StatusArrays(<<SetAt(hours, place).spans>>, day, minutes))

\* isOpenAt(set.spans, date, timeZone): spans.some(...) creates and changes
\* no array.
ReadOpen ==
  /\ Reading
  /\ \E place \in Places, day \in QueryDays, minutes \in ReaderMinutes :
       /\ pc' = "read"
       /\ query' = [kind |-> "open", place |-> place, day |-> day, minutes |-> minutes]
       /\ result' = [open |-> isOpenAt(SetAt(hours, place).spans, day, minutes)]
       /\ UNCHANGED <<origin, raw, spans, clubVars, scraperVars>>

\* getHoursSetForClub(club, amenity): returns one of the club's sets.
ReadHoursSet ==
  /\ Reading
  /\ \E label \in AmenityLabels :
       /\ pc' = "read"
       /\ query' = [kind |-> "amenity", label |-> label]
       /\ result' = getHoursSetForClub(hours, label.text)
       /\ UNCHANGED <<origin, raw, spans, clubVars, scraperVars>>

ReaderNext == ReadSpansForDate \/ ReadStatus \/ ReadOpen \/ ReadHoursSet

ReaderSpec == ReaderInit /\ [][ReaderNext]_vars

(***************************************************************************)
(* C23                                                                     *)
(***************************************************************************)
Occurrences(seq, x) == Cardinality({k \in 1..Len(seq) : seq[k] = x})
\* sorted holds the elements of list that fall on the day, each as often,
\* in ascending order of opening minute.
SortedDayCopy(sorted, list, day) ==
  /\ \A k \in 1..Len(sorted) : sorted[k].day = day
  /\ \A k \in 1..Len(list) :
       list[k].day = day => Occurrences(sorted, list[k]) = Occurrences(list, list[k])
  /\ Len(sorted) = Cardinality({k \in 1..Len(list) : list[k].day = day})
  /\ \A k \in 1..(Len(sorted) - 1) : OpenOf(sorted[k]) <= OpenOf(sorted[k + 1])
AnsweredSpansForDate == pc = "read" /\ query.kind = "spansForDate"
ReturnedSortedCopy ==
  AnsweredSpansForDate =>
    SortedDayCopy(result.spans, SetAt(hours, query.place).spans, query.day)

\* C23: no reader changes the hours it is given: across every call of
\* isOpenAt, getSpansForDate, getHoursStatus and getHoursSetForClub the
\* club's hours are the same in content and order, and what getSpansForDate
\* returns is a sorted copy of the day's intervals.
C23_ReadersLeaveHours == [][hours' = hours /\ ReturnedSortedCopy']_vars

\* getSpansForDate has returned the day's intervals in another order than
\* the club's hours hold them.
C23_Witness ==
  /\ AnsweredSpansForDate
  /\ Len(result.spans) >= 2
  /\ result.spans # SpansOnDay(SetAt(hours, query.place).spans, query.day)

(***************************************************************************)
(* The parser with the one field hours.ts keeps between calls: DAY_REGEX   *)
(* is created once with flag g, so it has a lastIndex that exec reads and  *)
(* writes.  Positions of lastIndex count from 0.                           *)
(***************************************************************************)
\* RegExpBuiltinExec for a global expression: the leftmost match that starts
\* at lastIndex or later, and lastIndex moved to its end; or no match, and
\* lastIndex back at 0.
DayRegexExecAt(s, starts) ==
  IF starts = {} THEN [match |-> None, lastIndex |-> 0]
  ELSE [match |-> Some(Slice(s, Leftmost(starts), DayTokenEnds(s, Leftmost(starts))[1] - 1)),
        lastIndex |-> DayTokenEnds(s, Leftmost(starts))[1] - 1]
DayRegexExec(s, index) ==
  DayRegexExecAt(s, {i \in (index + 1)..Len(s) : DayTokenEnds(s, i) # << >>})

\* The loop of RegExp.prototype[Symbol.match]: exec until it finds nothing.
RECURSIVE DayRegexLoop(_, _, _)
DayRegexLoop(s, matches, found) ==
  IF found.match = None THEN [matches |-> matches, lastIndex |-> found.lastIndex]
  ELSE DayRegexLoop(s, Append(matches, found.match[1]), DayRegexExec(s, found.lastIndex))

\* One exec where the source calls match: the search starts at the
\* lastIndex the call finds and stops after the first match.
DayRegexMatchOnce(s, index) ==
  [matches |-> DayRegexExec(s, index).match,
   lastIndex |-> DayRegexExec(s, index).lastIndex]

\* normalized.match(DAY_REGEX) (hours.ts 117): match sets lastIndex to 0
\* and then runs the loop.
DayRegexMatch(s, index) == DayRegexLoop(s, << >>, DayRegexExec(s, 0))

\* hours.ts 117-122
DaysOfMatches(found) ==
  [days |-> Unique(MappedDays(found.matches)), lastIndex |-> found.lastIndex]
DaysOfTokensCall(normalized, index) == DaysOfMatches(DayRegexMatch(normalized, index))
\* hours.ts 110-114
DaysOfBoundsCall(normalized, start, end, index) ==
  IF start # None /\ end # None
    THEN [days |-> expandDayRange(start[1], end[1]), lastIndex |-> index]
  ELSE DaysOfTokensCall(normalized, index)
\* hours.ts 109-122
DaysOfRangeCall(normalized, rangeMatch, index) ==
  IF rangeMatch = None THEN DaysOfTokensCall(normalized, index)
  ELSE DaysOfBoundsCall(normalized, DayMapLookup(rangeMatch[1][1]),
                        DayMapLookup(rangeMatch[1][2]), index)
\* hours.ts 97-122
DaysOfNormalizedCall(normalized, index) ==
  IF normalized = << >> THEN [days |-> << >>, lastIndex |-> index]
  ELSE IF \/ includes(normalized, <<"d", "a", "i", "l", "y">>)
          \/ includes(normalized, <<"e", "v", "e", "r", "y", " ", "d", "a", "y">>)
          \/ includes(normalized, <<"e", "v", "e", "r", "y", "d", "a", "y">>)
    THEN [days |-> <<0, 1, 2, 3, 4, 5, 6>>, lastIndex |-> index]
  ELSE DaysOfRangeCall(normalized, DayRangeMatch(normalized), index)
\* One call of parseDaysPart: the days, and lastIndex as the call leaves it.
parseDaysPartCall(text, index) ==
  DaysOfNormalizedCall(trim(normalizeDash(toLowerCase(text))), index)

\* hours.ts 186-194
SpansOfDaysCall(found, timeRange) ==
  [spans |-> SpansOfDays(found.days, timeRange), lastIndex |-> found.lastIndex]
\* hours.ts 179-194
SpansOfTimeRangeCall(line, timeRange, index) ==
  IF timeRange = None THEN [spans |-> << >>, lastIndex |-> index]
  ELSE SpansOfDaysCall(parseDaysPartCall(DaysPart(line, FirstDigitIndex(normalizeDash(line))),
                                         index),
                       timeRange[1])
\* hours.ts 171-194: one iteration of the loop of parseHoursLines.
SpansOfLineCall(line, index) ==
  IF line = << >> THEN [spans |-> << >>, lastIndex |-> index]
  ELSE IF includes(toLowerCase(line), <<"c", "l", "o", "s", "e", "d">>)
    THEN [spans |-> << >>, lastIndex |-> index]
  ELSE SpansOfTimeRangeCall(line, parseTimeRange(line), index)
PushedAfterLine(pushed, ofLine) ==
  [spans |-> pushed \o ofLine.spans, lastIndex |-> ofLine.lastIndex]
RECURSIVE PushedSpansCall(_, _)
PushedSpansCall(lines, done) ==
  IF lines = << >> THEN done
  ELSE PushedSpansCall(Tail(lines),
         PushedAfterLine(done.spans, SpansOfLineCall(trim(Head(lines)), done.lastIndex)))
NormalizedCall(done) ==
  [spans |-> FlatMapNormalize(done.spans), lastIndex |-> done.lastIndex]
\* One call of parseHoursLines: what it returns, and lastIndex as it leaves it.
parseHoursLinesCall(lines, index) ==
  NormalizedCall(PushedSpansCall(lines, [spans |-> << >>, lastIndex |-> index]))

(***************************************************************************)
(* Callers: parseHoursLines and getHoursStatus are called, in any order    *)
(* and by any of the callers; both are synchronous, so calls interleave    *)
(* as whole calls.  All a call finds of the calls before it is lastIndex.  *)
(***************************************************************************)
\* Callers that share the module.
MaxCallers == 2
\* Lines whose weekday names are found by DAY_REGEX (a list, a pair, one
\* name), a line with a weekday range, and a line with no weekday.
WeekdayListLine == <<"M", "o", "n", ",", " ", "W", "e", "d", ",", " ", "F", "r", "i", " ", "9", "a", "m", " ", "-", " ", "5", "p", "m">>
WeekdayPairLine == <<"S", "a", "t", " ", "&", " ", "S", "u", "n", " ", "1", "0", "a", "m", " ", "-", " ", "4", "p", "m">>
WeekdayRangeLine == <<"M", "o", "n", "-", "F", "r", "i", " ", "6", "a", "m", " ", "-", " ", "1", "0", "p", "m">>
NoWeekdayLine == <<"H", "o", "l", "i", "d", "a", "y", "s", " ", "9", "a", "m", " ", "-", " ", "5", "p", "m">>
\* The line lists of the calls.
CallLineLists == {
  << >>,
  <<WeekdayListLine>>,
  <<WeekdayPairLine>>,
  <<TueOvernightLine>>,
  <<WeekdayRangeLine>>,
  <<NoWeekdayLine>>,
  <<WeekdayListLine, WeekdayPairLine>>,
  <<WeekdayRangeLine, WeekdayListLine>>,
  <<TueOvernightLine, NoWeekdayLine>> }
CallSpans == {ClubSpansUnsorted, PoolSpansOvernight}
CallDays == {1, 2}
CallMinutes == {330, 1380}

\* Some line of the call has weekday names for DAY_REGEX to match.
ListsWeekdays(lines) ==
  \E k \in 1..Len(lines) : lines[k] \in {WeekdayListLine, WeekdayPairLine, TueOvernightLine}

NoCall == [kind |-> "none", weekdays |-> FALSE]

CallersInit ==
  /\ pc = "idle"
  /\ origin = "none"
  /\ raw = << >>
  /\ spans = << >>
  /\ query = NoCall
  /\ result = NoResult
  /\ ClubInit
  /\ ScraperInit

\* A caller's parseHoursLines(lines), after the call the state remembers.
ParseCall(caller, lines, returned) ==
  /\ pc' = "called"
  /\ query' = [kind |-> "parse", caller |-> caller, lines |-> lines,
               weekdays |-> ListsWeekdays(lines),
               after |-> [kind |-> query.kind, weekdays |-> query.weekdays]]
  /\ result' = [spans |-> returned.spans]
  /\ lastIndex' = returned.lastIndex
  /\ UNCHANGED <<origin, raw, spans, hours, scraperVars>>
CallParse ==
  /\ pc \in {"idle", "called"}
  /\ \E caller \in 1..MaxCallers, lines \in CallLineLists :
       ParseCall(caller, lines, parseHoursLinesCall(lines, lastIndex))

\* A caller's getHoursStatus(spans, date): it reads its arguments only.
CallStatus ==
  /\ pc \in {"idle", "called"}
  /\ \E caller \in 1..MaxCallers, list \in CallSpans, day \in CallDays,
        minutes \in CallMinutes :
       /\ pc' = "called"
       /\ query' = [kind |-> "status", caller |-> caller, list |-> list, day |-> day,
                    minutes |-> minutes, weekdays |-> FALSE,
                    after |-> [kind |-> query.kind, weekdays |-> query.weekdays]]
       /\ result' = getHoursStatus(list, day, minutes, << >>)
       /\ UNCHANGED <<origin, raw, spans, clubVars, scraperVars>>

CallersNext == CallParse \/ CallStatus

CallersSpec == CallersInit /\ [][CallersNext]_vars

(***************************************************************************)
(* C24                                                                     *)
(***************************************************************************)
ParseReturned == pc = "called" /\ query.kind = "parse"

\* C24: a call's result depends on its arguments only: whatever calls came
\* before it, by whichever caller, parseHoursLines returns what it returns
\* when it runs alone (from a fresh DAY_REGEX), which is what the parser
\* without any state gives; and between calls DAY_REGEX holds no match
\* position.
C24_NoHiddenState ==
  /\ lastIndex = 0
  /\ ParseReturned =>
       /\ result.spans = parseHoursLinesCall(query.lines, 0).spans
       /\ result.spans = parseHoursLines(query.lines)

\* A call with a weekday list has returned after another call, by another
\* line list, whose weekday names DAY_REGEX had matched.
C24_Witness ==
  /\ ParseReturned
  /\ query.weekdays
  /\ query.after.kind = "parse" /\ query.after.weekdays
  /\ Len(result.spans) >= 3

(***************************************************************************)
(* The scraper's run: scrape-equinox.ts run, discoverClubUrls, scrapeClub. *)
(* Of a run only the order of its HTTP requests and sleeps is kept: each   *)
(* fetchText is a request, each sleep(REQUEST_DELAY_MS) adds to the time   *)
(* slept since the last request, and what a response holds is open.        *)
(***************************************************************************)
REQUEST_DELAY_MS == 1200
\* toFetch = (...).slice(0, 10): sub-sitemaps fetched at most.
SitemapLimit == 10
\* Club URLs a discovery yields at most.
MaxUrls == 3

NoRequest == [kind |-> "none", url |-> "none"]

ScraperStart ==
  /\ pc = "start"
  /\ origin = "none"
  /\ raw = << >>
  /\ spans = << >>
  /\ query = NoRequest
  /\ result = NoResult
  /\ ClubInit
  /\ ScraperInit

\* fetchText(url): a request goes out; gap is the time slept since the one
\* before it.
Request(url) ==
  /\ query' = [kind |-> "request", url |-> url, after |-> query.url]
  /\ gap' = slept
  /\ slept' = Some(0)
\* await sleep(REQUEST_DELAY_MS)
Sleep ==
  slept' = IF slept = None THEN None ELSE Some(slept[1] + REQUEST_DELAY_MS)

\* discoverClubUrls returns n URLs found on the path; run throws when there
\* is none (line 655) and loops over them otherwise.
Discovered(n, path) ==
  /\ origin' = path
  /\ pending' = n
  /\ pc' = IF n = 0 THEN "failed" ELSE "clubs"

\* scrape-equinox.ts 478-481: the seed file, when it lists URLs.
ReadSeedUrls ==
  /\ pc = "start"
  /\ \E seeded \in BOOLEAN :
       IF seeded THEN \E n \in 0..MaxUrls : Discovered(n, "seed")
       ELSE pc' = "sitemap" /\ UNCHANGED <<origin, pending>>
  /\ UNCHANGED <<raw, spans, query, result, clubVars, slept, gap>>

\* scrape-equinox.ts 507-520: the sitemap is fetched; it lists club URLs, or
\* sub-sitemaps, or the fetch throws and the region page is next.
FetchSitemap ==
  /\ pc = "sitemap"
  /\ Request("sitemap")
  /\ \E outcome \in {"throws", "urls", "sitemaps"} :
       /\ result' = [fetch |-> outcome]
       /\ CASE outcome = "throws" -> pc' = "region" /\ UNCHANGED <<origin, pending>>
            [] outcome = "urls" -> \E n \in 0..MaxUrls : Discovered(n, "sitemap")
            [] outcome = "sitemaps" ->
                 \E k \in 0..SitemapLimit :
                   /\ pending' = k
                   /\ pc' = IF k = 0 THEN "region" ELSE "sub-sitemaps"
                   /\ UNCHANGED origin
  /\ UNCHANGED <<raw, spans, clubVars>>

\* scrape-equinox.ts 523: a sub-sitemap is fetched; a throw leaves the loop
\* for the region page.
FetchSubSitemap ==
  /\ pc = "sub-sitemaps"
  /\ Request("sub-sitemap")
  /\ \E outcome \in {"throws", "fetched"} :
       /\ result' = [fetch |-> outcome]
       /\ IF outcome = "throws" THEN pc' = "region" /\ pending' = 0
          ELSE pc' = "sub-sitemap sleep" /\ UNCHANGED pending
  /\ UNCHANGED <<origin, raw, spans, clubVars>>

\* scrape-equinox.ts 526-531: the sleep that ends an iteration; after the
\* last one the URLs discovered are returned, or the region page is next.
SleepAfterSubSitemap ==
  /\ pc = "sub-sitemap sleep"
  /\ Sleep
  /\ IF pending > 1 THEN pc' = "sub-sitemaps" /\ pending' = pending - 1 /\ UNCHANGED origin
     ELSE \E found \in BOOLEAN :
            IF found THEN \E n \in 0..MaxUrls : Discovered(n, "sub-sitemaps")
            ELSE pc' = "region" /\ pending' = 0 /\ UNCHANGED origin
  /\ UNCHANGED <<raw, spans, query, result, clubVars, gap>>

\* scrape-equinox.ts 536-559: the region page is fetched; a throw ends the run.
FetchRegion ==
  /\ pc = "region"
  /\ Request("region")
  /\ \E outcome \in {"throws", "fetched"} :
       /\ result' = [fetch |-> outcome]
       /\ IF outcome = "throws" THEN pc' = "failed" /\ UNCHANGED <<origin, pending>>
          ELSE \E n \in 0..MaxUrls : Discovered(n, "region")
  /\ UNCHANGED <<raw, spans, clubVars>>

\* scrape-equinox.ts 662-670: scrapeClub fetches the club page, unless it
\* throws before (new URL(url) at line 563); a throw is caught.
ScrapeClub ==
  /\ pc = "clubs"
  /\ pc' = "club sleep"
  /\ \E outcome \in {"throws before", "throws", "fetched"} :
       /\ result' = [fetch |-> outcome]
       /\ IF outcome = "throws before" THEN UNCHANGED <<query, slept, gap>>
          ELSE Request("club")
  /\ UNCHANGED <<origin, raw, spans, clubVars, pending>>

\* scrape-equinox.ts 672: the sleep that ends an iteration of run's loop.
SleepAfterClub ==
  /\ pc = "club sleep"
  /\ Sleep
  /\ pending' = pending - 1
  /\ pc' = IF pending = 1 THEN "done" ELSE "clubs"
  /\ UNCHANGED <<origin, raw, spans, query, result, clubVars, gap>>

ScraperNext ==
  \/ ReadSeedUrls
  \/ FetchSitemap
  \/ FetchSubSitemap
  \/ SleepAfterSubSitemap
  \/ FetchRegion
  \/ ScrapeClub
  \/ SleepAfterClub

ScraperSpec == ScraperStart /\ [][ScraperNext]_vars

(***************************************************************************)
(* C25                                                                     *)
(***************************************************************************)
Throttled == gap = None \/ gap[1] >= REQUEST_DELAY_MS
Requested(url, after) ==
  query.kind = "request" /\ query.url = url /\ query.after = after

\* Between two requests of the same loop (sub-sitemap after sub-sitemap,
\* club after club, also after a club fetch that failed), and on every run
\* that starts from the seed file, the delay has elapsed.
C25_ThrottledInLoops ==
  /\ Requested("sub-sitemap", "sub-sitemap") => Throttled
  /\ Requested("club", "club") => Throttled
  /\ origin = "seed" => Throttled

\* C25: in every run, between any two consecutive requests (sitemap,
\* sub-sitemaps, region page, club pages) at least REQUEST_DELAY_MS has been
\* slept, on every discovery path and also after a failed club fetch.
C25_Throttled == Throttled

(***************************************************************************)
(* The status engine under a running clock: a club's hours set is built,   *)
(* its status is asked at a local instant, and asked again as the clock    *)
(* advances minute by minute.                                              *)
(***************************************************************************)
\* Minutes the clock is advanced after the first look.
MaxTicks == 2

MonMorningLine == <<"M", "o", "n", " ", "9", "a", "m", " ", "-", " ", "1", "2", "p", "m">>
MonAfternoonLine == <<"M", "o", "n", " ", "1", "2", "p", "m", " ", "-", " ", "5", "p", "m">>
MonLateMorningLine == <<"M", "o", "n", " ", "1", "1", "a", "m", " ", "-", " ", "5", "p", "m">>
MonEveningLine == <<"M", "o", "n", " ", "1", "0", "p", "m", " ", "-", " ", "1", "2", "a", "m">>
TueAllDayLine == <<"T", "u", "e", " ", "2", "4", " ", "h", "o", "u", "r", "s">>
\* Line lists of a scraped hours section: adjacent, separate (out of time
\* order) and overlapping intervals of one day, an overnight interval, an
\* interval that runs into an all-day one, a whole week, always open, none.
ClockLineLists == {
  <<MonMorningLine, MonAfternoonLine>>,
  <<MonAfternoonLine, <<"M", "o", "n", " ", "6", "a", "m", " ", "-", " ", "9", "a", "m">>>>,
  <<MonMorningLine, MonLateMorningLine>>,
  <<TueOvernightLine>>,
  <<MonEveningLine, TueAllDayLine>>,
  <<WeekdayLine, WeekendLine>>,
  <<DailyLine>>,
  <<SatToMidnightLine>>,
  << >> }
\* Span lists of stored club data: an interval up to midnight followed by a
\* later one, or by two that start at midnight.
ClockStoredLists == {
  <<SpanOf([day |-> 1, open |-> 1320, close |-> 1440]),
    SpanOf([day |-> 2, open |-> 360, close |-> 600])>>,
  <<SpanOf([day |-> 6, open |-> 1320, close |-> 1440]),
    SpanOf([day |-> 0, open |-> 0, close |-> 60]),
    SpanOf([day |-> 0, open |-> 0, close |-> 300])>>,
  <<SpanOf([day |-> 2, open |-> 780, close |-> 1020]),
    SpanOf([day |-> 2, open |-> 540, close |-> 720])>> }
\* Instants of the first look: each day at minutes around the openings and
\* closings above.
ClockMinutes == {0, 59, 359, 539, 628, 659, 718, 778, 1019, 1228, 1318, 1378, 1438}

\* The first look at the status.
Look ==
  /\ pc = "ready"
  /\ \E day \in QueryDays, minutes \in ClockMinutes, options \in QueryOptions :
       StatusQuery(day, minutes, options)

\* The local instant one minute later.
MinuteAfter(day, minutes) ==
  IF minutes + 1 < 24 * 60 THEN [day |-> day, minutes |-> minutes + 1]
  ELSE [day |-> (day + 1) % 7, minutes |-> 0]
TicksOf(asked) == IF "ticks" \in DOMAIN asked THEN asked.ticks ELSE 0

\* The status one minute after the last answer, with the same thresholds;
\* the answer before is kept beside the query.
StatusAt(instant) ==
  /\ pc' = "status"
  /\ query' = [kind |-> "status", day |-> instant.day, minutes |-> instant.minutes,
               options |-> query.options, ticks |-> TicksOf(query) + 1,
               before |-> result]
  /\ result' = getHoursStatus(spans, instant.day, instant.minutes, query.options)
  /\ UNCHANGED <<origin, raw, spans, clubVars, scraperVars>>
Tick ==
  /\ pc = "status"
  /\ TicksOf(query) < MaxTicks
  /\ StatusAt(MinuteAfter(query.day, query.minutes))

ScrapeHours == pc = "new" /\ \E lines \in ClockLineLists : buildHoursSet(lines)
LoadHours == pc = "new" /\ \E stored \in ClockStoredLists : loadClubs(stored)

ClockNext == ScrapeHours \/ LoadHours \/ Look \/ Tick

ClockSpec == Init /\ [][ClockNext]_vars


\* What isOpenAt answers at the instant of the status query.
OpenNow == isOpenAt(spans, query.day, query.minutes)

\* C26: at every instant and for every hours set and thresholds, isOpenAt
\* answers true exactly when getHoursStatus answers open or closing_soon, and
\* false exactly when it answers opening_soon or closed.
C26_OpenAgreesWithStatus ==
  Answered =>
    /\ OpenNow <=> result.status \in {"open", "closing_soon"}
    /\ ~OpenNow <=> result.status \in {"opening_soon", "closed"}

\* A closing: closing soon and open at one minute, closed and not open at the
\* next.
C26_Witness ==
  /\ Answered
  /\ TicksOf(query) = 1
  /\ query.before.status = "closing_soon"
  /\ result.status = "closed"
  /\ ~OpenNow
  /\ query.options = << >>

\* The thresholds the status query runs with.
ClosingSoonNow == ClosingSoonOf(query.options)
OpeningSoonNow == OpeningSoonOf(query.options)

\* C27: a closing_soon result carries minutesUntilClose between 1 and
\* closingSoonMinutes, an opening_soon result carries minutesUntilOpen between
\* 1 and openingSoonMinutes; open and closing_soon carry no minutesUntilOpen,
\* closed and opening_soon no minutesUntilClose; every countdown present is at
\* least 1, so a threshold of 0 never gives the matching "soon" status.
C27_ResultShape ==
  Answered =>
    /\ result.status \in {"open", "closing_soon", "opening_soon", "closed"}
    /\ result.status = "closing_soon" =>
         /\ Has(result, "minutesUntilClose")
         /\ 1 <= result.minutesUntilClose
         /\ result.minutesUntilClose <= ClosingSoonNow
    /\ result.status = "opening_soon" =>
         /\ Has(result, "minutesUntilOpen")
         /\ 1 <= result.minutesUntilOpen
         /\ result.minutesUntilOpen <= OpeningSoonNow
    /\ result.status \in {"open", "closing_soon"} => ~Has(result, "minutesUntilOpen")
    /\ result.status \in {"closed", "opening_soon"} => ~Has(result, "minutesUntilClose")
    /\ Has(result, "minutesUntilClose") => result.minutesUntilClose >= 1
    /\ Has(result, "minutesUntilOpen") => result.minutesUntilOpen >= 1
    /\ ClosingSoonNow = 0 => result.status # "closing_soon"
    /\ OpeningSoonNow = 0 => result.status # "opening_soon"

\* With both thresholds 0, one minute before an opening: closed, countdown 1.
C27_Witness ==
  /\ Answered
  /\ ClosingSoonNow = 0
  /\ OpeningSoonNow = 0
  /\ result = [status |-> "closed", minutesUntilOpen |-> 1]

\* The local instant a number of minutes after the asked one, counted
\* cyclically through the week.
WeekMinuteOf(day, minutes) == day * 24 * 60 + minutes
InstantAfter(count) ==
  [day |-> ((WeekMinuteOf(query.day, query.minutes) + count) \div (24 * 60)) % 7,
   minutes |-> (WeekMinuteOf(query.day, query.minutes) + count) % (24 * 60)]
OpenAfter(count) == isOpenAt(spans, InstantAfter(count).day, InstantAfter(count).minutes)

\* Every interval opens before it closes and closes by 24:00.
WithinDay ==
  \A k \in 1..Len(spans) :
    /\ toMinutes(spans[k].open) < toMinutes(spans[k].close)
    /\ toMinutes(spans[k].close) <= 24 * 60

\* C28: for intervals with open < close <= 24:00, a closed or opening_soon
\* result with minutesUntilOpen = k at minute t means the facility is not open
\* at any of the minutes t .. t+k-1 and is open at minute t+k of the cyclic
\* week.
C28_OpeningCountdownExact ==
  (/\ Answered
   /\ WithinDay
   /\ result.status \in {"closed", "opening_soon"}
   /\ Has(result, "minutesUntilOpen"))
    => /\ \A count \in 0..(result.minutesUntilOpen - 1) : ~OpenAfter(count)
       /\ OpenAfter(result.minutesUntilOpen)

\* Saturday night before a Sunday opening: the countdown crosses the end of
\* the week.
C28_Witness ==
  /\ Answered
  /\ WithinDay
  /\ query.day = 6
  /\ result.status = "closed"
  /\ Has(result, "minutesUntilOpen")
  /\ result.minutesUntilOpen > 24 * 60 - query.minutes
  /\ OpenAfter(result.minutesUntilOpen)

\* C29: for intervals with open < close <= 24:00, an open or closing_soon
\* result with minutesUntilClose = k at minute t means the facility is open at
\* every minute t .. t+k-1, also when the countdown runs past midnight into an
\* interval of the next day that starts at 00:00.
C29_ClosingCountdownSound ==
  (/\ Answered
   /\ WithinDay
   /\ result.status \in {"open", "closing_soon"}
   /\ Has(result, "minutesUntilClose"))
    => \A count \in 0..(result.minutesUntilClose - 1) : OpenAfter(count)

\* A countdown merged across midnight: it is longer than the rest of the day.
C29_Witness ==
  /\ Answered
  /\ WithinDay
  /\ result.status \in {"open", "closing_soon"}
  /\ Has(result, "minutesUntilClose")
  /\ result.minutesUntilClose > 24 * 60 - query.minutes
  /\ OpenAfter(result.minutesUntilClose - 1)
  /\ ~OpenAfter(result.minutesUntilClose)

\* The answer one minute earlier was closing_soon, on a parsed hours set.
AfterClosingSoon ==
  /\ Answered
  /\ origin = "scraped"
  /\ Has(query, "before")
  /\ query.before.status = "closing_soon"

\* C30: on an hours set produced by parseHoursLines, with fixed thresholds, a
\* closing_soon result is at the next minute followed by closing_soon with
\* the countdown one less, or by closed or opening_soon, never by open; also
\* when two intervals of one day are adjacent and across the midnight split.
C30_ClosingSoonNeverReopens ==
  AfterClosingSoon =>
    \/ /\ result.status = "closing_soon"
       /\ result.minutesUntilClose = query.before.minutesUntilClose - 1
    \/ result.status \in {"closed", "opening_soon"}

====
